---- MODULE Spec2Model ----
(***************************************************************************)
(* A model of libunwindstack's MapInfo (lazy ELF, load bias and build id   *)
(* of one address-space mapping) and of its Memory family, translated from *)
(* MapInfo.cpp, MapInfo.h and Memory.cpp.                                  *)
(*                                                                         *)
(* Addresses are uint64_t in the source.  TLC's integers are 32 bits wide, *)
(* so the model keeps the source's modular arithmetic at a narrower word:  *)
(* AddrBits bits instead of 64.  Every overflow test of the source is kept *)
(* (Add64Overflows); UINT64_MAX is the top of that narrower word.          *)
(***************************************************************************)
EXTENDS Integers, Sequences, FiniteSets, TLC

\* Width of an address in the model (64 in the source).
AddrBits == 20

AddrSpace == 2 ^ AddrBits

UINT64_MAX == AddrSpace - 1

\* getpagesize()
PageSize == 4096

\* The sentinel load_bias_ is constructed with (INT64_MAX in the source; no
\* address of the model reaches it).
INT64_MAX == 2147483647

Null == "nullptr"

Add64(a, b) == (a + b) % AddrSpace

Sub64(a, b) == (a - b) % AddrSpace

\* __builtin_add_overflow(a, b, &r)
Add64Overflows(a, b) == a + b > UINT64_MAX

Min(a, b) == IF a < b THEN a ELSE b

\* PROT_READ, and the flags of a read/execute and of a device map.
PROT_READ == {"r"}

PROT_READ_EXEC == {"r", "x"}

MAPS_FLAGS_DEVICE_MAP == "device"

(***************************************************************************)
(* State.                                                                  *)
(*  env     the target the MapInfos describe: the maps' constructor        *)
(*          arguments, the files on disk and the ELF images in process     *)
(*          memory.  It does not change.                                   *)
(*  elf, elf_offset, elf_start_offset, memory_backed_elf, load_bias,       *)
(*  build_id, mutex: the fields of each MapInfo.                           *)
(*  elfs    the Elf objects created so far (the heap), by object id.       *)
(*  pc, loc the position and the locals of each thread's current call.     *)
(*  calls   calls made so far.                                             *)
(*  obsElf, retBias, retBuildId: what the calls on each MapInfo observed   *)
(*          or returned so far (history).                                  *)
(*  object  a Memory object that is read directly (Memory.cpp), with the   *)
(*          objects it wraps and the target it reads.                      *)
(*  last    the last Read made of `object`: its arguments, its return      *)
(*          value and the bytes it stored in dst (history).                *)
(*  remoteLog  which method the reads of a MemoryRemote used (history).    *)
(*  initOk  whether the most recent Init of `object` returned true         *)
(*          (history).                                                     *)
(*  catalog  a GlobalDebugImpl or a JitDebugImpl with the descriptor and   *)
(*          the entry list of the target it reads.                         *)
(*  catalogLog  what the calls on `catalog` did and returned (history).    *)
(*  dex     a DexFile: its symbolizer and its symbols_ cache.              *)
(*  dexLog  the last GetFunctionName call on `dex` (history).              *)
(*  interned  g_mapped_dex_files, g_lock, the DexFile objects made from    *)
(*          disk and the shared_ptr handles each thread holds.             *)
(*  internLog  the last CreateFromDisk call (history).                     *)
(***************************************************************************)
VARIABLES env, elf, elf_offset, elf_start_offset, memory_backed_elf,
          load_bias, build_id, mutex, elfs, pc, loc, calls,
          obsElf, retBias, retBuildId, object, last, remoteLog, initOk,
          catalog, catalogLog, dex, dexLog, interned, internLog

mapVars == <<elf, elf_offset, elf_start_offset, memory_backed_elf,
             load_bias, build_id, mutex, elfs>>

histVars == <<obsElf, retBias, retBuildId>>

memVars == <<object, last>>

\* The variables the MapInfo calls and the direct reads leave alone.
dexVars == <<dex, dexLog>>

internVars == <<interned, internLog>>

libVars == <<remoteLog, initOk, catalog, catalogLog, dexVars, internVars>>

otherThanRemote == <<initOk, catalog, catalogLog, dexVars, internVars>>

otherThanInit == <<remoteLog, catalog, catalogLog, dexVars, internVars>>

otherThanCatalog == <<remoteLog, initOk, dexVars, internVars>>

otherThanDex == <<remoteLog, initOk, catalog, catalogLog, internVars>>

otherThanIntern == <<remoteLog, initOk, catalog, catalogLog, dexVars>>

vars == <<env, mapVars, pc, loc, calls, histVars, memVars, libVars>>

\* Calls the threads make, all together.
MaxCalls == 3

\* The most entries the queries on one catalog read from the target.
MaxReads == 8

Threads == {"t1", "t2"}

MapIds == {"m1", "m2"}

\* The id of the Elf object that GetElf on map m allocates (new Elf).
NewElfId(m) == IF m = "m1" THEN "E1" ELSE "E2"

ElfIds == {"E1", "E2"}

Archs == {"ARCH_ARM64", "ARCH_X86_64"}

(***************************************************************************)
(* The target.  A file is [exists, size, elfAt, elfSize]: whether open()   *)
(* succeeds, st_size, the file offsets at which an ELF header starts, and  *)
(* the size Elf::GetInfo derives from such a header.  procElf is the set   *)
(* of process addresses at which an ELF header starts.  elfArch, elfBias   *)
(* and elfBuildId are what the ELF image carries.                          *)
(***************************************************************************)
NoFile == [exists |-> FALSE, size |-> 0, elfAt |-> {}, elfSize |-> 0]

MapArgs(start, end, offset, flags, name, prev) ==
    [start |-> start, end |-> end, offset |-> offset, flags |-> flags,
     name |-> name, prev_real_map |-> prev]

\* A shared library mapped as a read-only map followed by a read-execute map.
SplitLibrary ==
    [maps |-> [m1 |-> MapArgs(4096, 8192, 0, PROT_READ, "libc.so", Null),
               m2 |-> MapArgs(8192, 16384, 4096, PROT_READ_EXEC, "libc.so", "m1")],
     file |-> [exists |-> TRUE, size |-> 12288, elfAt |-> {0}, elfSize |-> 12288],
     procElf |-> {4096}, elfArch |-> "ARCH_ARM64", elfBias |-> 4096,
     elfBuildId |-> "aa"]

\* A shared library embedded in an apk at file offset 4096, mapped in two maps.
LibraryInApk ==
    [maps |-> [m1 |-> MapArgs(4096, 8192, 4096, PROT_READ, "app.apk", Null),
               m2 |-> MapArgs(8192, 12288, 8192, PROT_READ_EXEC, "app.apk", "m1")],
     file |-> [exists |-> TRUE, size |-> 20480, elfAt |-> {4096}, elfSize |-> 12288],
     procElf |-> {4096}, elfArch |-> "ARCH_ARM64", elfBias |-> 0,
     elfBuildId |-> "aa"]

\* The same two maps when the file is gone: the ELF is read from the process.
DeletedLibrary ==
    [maps |-> [m1 |-> MapArgs(4096, 8192, 0, PROT_READ, "libc.so", Null),
               m2 |-> MapArgs(8192, 16384, 4096, PROT_READ_EXEC, "libc.so", "m1")],
     file |-> NoFile,
     procElf |-> {4096}, elfArch |-> "ARCH_ARM64", elfBias |-> 4096,
     elfBuildId |-> "aa"]

\* A read-only map with end <= start in front of the read-execute map of the
\* same file.
EmptyHeaderMap ==
    [maps |-> [m1 |-> MapArgs(8192, 8192, 0, PROT_READ, "libc.so", Null),
               m2 |-> MapArgs(8192, 16384, 4096, PROT_READ_EXEC, "libc.so", "m1")],
     file |-> [exists |-> TRUE, size |-> 12288, elfAt |-> {0}, elfSize |-> 12288],
     procElf |-> {}, elfArch |-> "ARCH_ARM64", elfBias |-> 4096,
     elfBuildId |-> "aa"]

\* A device map, and a library mapped whole by one map.
DeviceMap ==
    [maps |-> [m1 |-> MapArgs(4096, 8192, 0, {"r", "w", MAPS_FLAGS_DEVICE_MAP}, "/dev/kgsl", Null),
               m2 |-> MapArgs(8192, 20480, 0, PROT_READ_EXEC, "/dev/kgsl", Null)],
     file |-> [exists |-> TRUE, size |-> 12288, elfAt |-> {0}, elfSize |-> 12288],
     procElf |-> {8192}, elfArch |-> "ARCH_ARM64", elfBias |-> 0,
     elfBuildId |-> "aa"]

\* Two anonymous maps; the first holds an ELF image in memory, the second none.
Anonymous ==
    [maps |-> [m1 |-> MapArgs(4096, 8192, 0, PROT_READ_EXEC, "", Null),
               m2 |-> MapArgs(12288, 16384, 0, PROT_READ_EXEC, "", "m1")],
     file |-> NoFile,
     procElf |-> {4096}, elfArch |-> "ARCH_ARM64", elfBias |-> 0,
     elfBuildId |-> "aa"]

\* Two read-execute maps at non-zero offsets of a file that is one ELF, with
\* no read-only map of its header in front.
LoneExecutableMaps ==
    [maps |-> [m1 |-> MapArgs(4096, 8192, 4096, PROT_READ_EXEC, "libc.so", Null),
               m2 |-> MapArgs(8192, 12288, 8192, PROT_READ_EXEC, "libc.so", "m1")],
     file |-> [exists |-> TRUE, size |-> 16384, elfAt |-> {0}, elfSize |-> 16384],
     procElf |-> {}, elfArch |-> "ARCH_ARM64", elfBias |-> 0,
     elfBuildId |-> "aa"]

Scenarios == {SplitLibrary, LibraryInApk, DeletedLibrary, EmptyHeaderMap,
              DeviceMap, Anonymous, LoneExecutableMaps}

\* next_real_map_: set by the constructor of the map whose prev_real_map is m.
NextRealMap(e, m) ==
    IF \E n \in MapIds : e.maps[n].prev_real_map = m
    THEN CHOOSE n \in MapIds : e.maps[n].prev_real_map = m
    ELSE Null

(***************************************************************************)
(* Memory objects CreateMemory builds.  NullMem is a null Memory*.         *)
(***************************************************************************)
NullMem == [kind |-> "null"]

\* MemoryFileAtOffset::Init(file, offset, size): the object on success (its
\* data_ starts at file offset `offset`, size_ bytes are exposed), NullMem
\* when Init returns false.
MemoryFileAtOffset_Init(e, name, offset, size) ==
    LET f == IF name = "" THEN NoFile ELSE e.file
        offset_ == offset % PageSize
        aligned_offset == offset - offset_
        mapped == f.size - aligned_offset
        size_ == IF ~Add64Overflows(size, offset_) /\ size + offset_ < mapped
                 THEN size + offset_ ELSE mapped
    IN IF ~f.exists THEN NullMem
       ELSE IF offset >= f.size THEN NullMem
       ELSE IF aligned_offset > f.size \/ offset > f.size THEN NullMem
       ELSE [kind |-> "file", name |-> name, offset |-> offset,
             size |-> size_ - offset_]

\* MemoryRange::MemoryRange(memory, begin, length, offset)
MemoryRange(memory, begin, length, offset) ==
    [kind |-> "range", memory |-> memory, begin |-> begin, length |-> length,
     offset |-> offset]

\* A MemoryRanges with no range; maps_ is keyed by the exclusive end of each
\* range.
EmptyRanges == [kind |-> "ranges", maps |-> <<>>]

\* MemoryRanges::Insert(memory): std::map::emplace keeps an entry that has
\* the key already.
MemoryRanges_Insert(ranges, memory) ==
    LET last_addr == IF Add64Overflows(memory.offset, memory.length)
                     THEN UINT64_MAX
                     ELSE memory.offset + memory.length
    IN IF last_addr \in DOMAIN ranges.maps THEN ranges
       ELSE [ranges EXCEPT !.maps =
                [k \in DOMAIN ranges.maps \cup {last_addr} |->
                    IF k = last_addr THEN memory ELSE ranges.maps[k]]]

\* maps_.upper_bound(addr) != maps_.end()
HasUpperBound(maps, addr) == \E k \in DOMAIN maps : k > addr

\* maps_.upper_bound(addr): the least key above addr.
UpperBound(maps, addr) ==
    CHOOSE k \in DOMAIN maps : k > addr /\ \A j \in DOMAIN maps : j > addr => k <= j

\* Elf::IsValidElf(memory): an ELF header is read at address 0 of memory.
IsValidElf(e, mem) ==
    CASE mem.kind = "file" -> mem.offset \in e.file.elfAt
      [] mem.kind = "range" -> mem.offset = 0 /\ mem.begin \in e.procElf
      [] mem.kind = "ranges" ->
            /\ HasUpperBound(mem.maps, 0)
            /\ LET k == UpperBound(mem.maps, 0)
               IN mem.maps[k].offset = 0 /\ mem.maps[k].begin \in e.procElf
      [] OTHER -> FALSE

\* Elf::GetInfo(memory, &size): [ok, size].
Elf_GetInfo(e, mem) ==
    IF IsValidElf(e, mem) THEN [ok |-> TRUE, size |-> e.file.elfSize]
    ELSE [ok |-> FALSE, size |-> 0]

(***************************************************************************)
(* MapInfo::CreateMemory and its helpers.  Each takes the map id m and the *)
(* current values f = [elf_offset, elf_start_offset, memory_backed_elf] of *)
(* the fields it may write, and yields the Memory* it returns (mem) with   *)
(* the fields' values on return.                                           *)
(***************************************************************************)
Fields(m) ==
    [elf_offset |-> elf_offset[m], elf_start_offset |-> elf_start_offset[m],
     memory_backed_elf |-> memory_backed_elf[m]]

Returns(mem, f) ==
    [mem |-> mem, elf_offset |-> f.elf_offset,
     elf_start_offset |-> f.elf_start_offset,
     memory_backed_elf |-> f.memory_backed_elf]

\* InitFileMemoryFromPreviousReadOnlyMap with a slip: elf_offset_ is not
\* rebased on the offset of the previous map.
InitFileMemoryFromPreviousReadOnlyMap_NotRebased(e, m, f) ==
    LET mi == e.maps[m]
        prev == e.maps[mi.prev_real_map]
        map_size == Sub64(mi.end, prev.end)
        first == MemoryFileAtOffset_Init(e, mi.name, prev.offset, map_size)
        info == Elf_GetInfo(e, first)
        second == MemoryFileAtOffset_Init(e, mi.name, prev.offset, info.size)
    IN IF mi.prev_real_map = Null THEN Returns(NullMem, f)
       ELSE IF prev.flags # PROT_READ THEN Returns(NullMem, f)
       ELSE IF first = NullMem THEN Returns(NullMem, f)
       ELSE IF ~info.ok \/ info.size < map_size THEN Returns(NullMem, f)
       ELSE IF second = NullMem THEN Returns(NullMem, f)
       ELSE Returns(second, [f EXCEPT !.elf_offset = mi.offset,
                                      !.elf_start_offset = prev.offset])

\* MapInfo::InitFileMemoryFromPreviousReadOnlyMap: mem is NullMem when it
\* returns false.
InitFileMemoryFromPreviousReadOnlyMap(e, m, f) ==
    LET mi == e.maps[m]
        prev == e.maps[mi.prev_real_map]
        map_size == Sub64(mi.end, prev.end)
        first == MemoryFileAtOffset_Init(e, mi.name, prev.offset, map_size)
        info == Elf_GetInfo(e, first)
        second == MemoryFileAtOffset_Init(e, mi.name, prev.offset, info.size)
    IN IF mi.prev_real_map = Null THEN Returns(NullMem, f)
       ELSE IF prev.flags # PROT_READ THEN Returns(NullMem, f)
       ELSE IF first = NullMem THEN Returns(NullMem, f)
       ELSE IF ~info.ok \/ info.size < map_size THEN Returns(NullMem, f)
       ELSE IF second = NullMem THEN Returns(NullMem, f)
       ELSE Returns(second, [f EXCEPT !.elf_offset = Sub64(mi.offset, prev.offset),
                                      !.elf_start_offset = prev.offset])

\* MapInfo::GetFileMemory
GetFileMemory(e, m, f) ==
    LET mi == e.maps[m]
        map_size == Sub64(mi.end, mi.start)
        whole == MemoryFileAtOffset_Init(e, mi.name, 0, UINT64_MAX)
        atOffset == MemoryFileAtOffset_Init(e, mi.name, mi.offset, map_size)
        info == Elf_GetInfo(e, atOffset)
        embedded == [f EXCEPT !.elf_start_offset = mi.offset]
        bigger == MemoryFileAtOffset_Init(e, mi.name, mi.offset, info.size)
        prevIsHeader ==
            /\ mi.prev_real_map # Null
            /\ e.maps[mi.prev_real_map].offset = 0
            /\ e.maps[mi.prev_real_map].flags = PROT_READ
            /\ e.maps[mi.prev_real_map].name = mi.name
        fromPrev == InitFileMemoryFromPreviousReadOnlyMap(e, m, f)
    IN IF mi.offset = 0 THEN Returns(whole, f)
       ELSE IF atOffset = NullMem THEN Returns(NullMem, f)
       ELSE IF info.ok THEN
            IF info.size > map_size THEN
               IF bigger # NullMem THEN Returns(bigger, embedded)
               ELSE IF atOffset # NullMem THEN Returns(atOffset, embedded)
               ELSE Returns(NullMem, [embedded EXCEPT !.elf_start_offset = 0])
            ELSE Returns(atOffset, embedded)
       ELSE IF whole # NullMem /\ IsValidElf(e, whole) THEN
            Returns(whole, [f EXCEPT !.elf_offset = mi.offset,
                                     !.elf_start_offset =
                                         IF prevIsHeader THEN @ ELSE mi.offset])
       ELSE IF fromPrev.mem # NullMem THEN fromPrev
       ELSE Returns(atOffset, f)

\* MapInfo::CreateMemory(process_memory) from line 141 on, for a map with
\* start < end; pm is Null for a null process_memory.
CreateMemoryOfRange(e, m, f, pm) ==
    LET mi == e.maps[m]
        f0 == [f EXCEPT !.elf_offset = 0]
        file == IF mi.name # "" THEN GetFileMemory(e, m, f0) ELSE Returns(NullMem, f0)
        f1 == [elf_offset |-> file.elf_offset,
               elf_start_offset |-> file.elf_start_offset,
               memory_backed_elf |-> TRUE]
        memory == MemoryRange(pm, mi.start, Sub64(mi.end, mi.start), 0)
        next == NextRealMap(e, m)
        prev == mi.prev_real_map
    IN IF MAPS_FLAGS_DEVICE_MAP \in mi.flags THEN Returns(NullMem, f0)
       ELSE IF file.mem # NullMem THEN file
       ELSE IF pm = Null THEN Returns(NullMem, [f1 EXCEPT !.memory_backed_elf = f.memory_backed_elf])
       ELSE IF IsValidElf(e, memory) THEN
            IF \/ mi.offset # 0 \/ mi.name = "" \/ next = Null
               \/ (next # Null /\ (mi.offset >= e.maps[next].offset
                                     \/ e.maps[next].name # mi.name))
            THEN Returns(memory, f1)
            ELSE Returns(MemoryRanges_Insert(
                             MemoryRanges_Insert(EmptyRanges, memory),
                             MemoryRange(pm, e.maps[next].start,
                                         Sub64(e.maps[next].end, e.maps[next].start),
                                         Sub64(e.maps[next].offset, mi.offset))),
                         f1)
       ELSE IF \/ mi.offset = 0 \/ mi.name = "" \/ prev = Null
               \/ (prev # Null /\ (e.maps[prev].name # mi.name
                                     \/ e.maps[prev].offset >= mi.offset))
            THEN Returns(NullMem, [f1 EXCEPT !.memory_backed_elf = FALSE])
       ELSE LET eo == Sub64(mi.offset, e.maps[prev].offset) IN
            Returns(MemoryRanges_Insert(
                        MemoryRanges_Insert(EmptyRanges,
                            MemoryRange(pm, e.maps[prev].start,
                                        Sub64(e.maps[prev].end, e.maps[prev].start), 0)),
                        MemoryRange(pm, mi.start, Sub64(mi.end, mi.start), eo)),
                    [f1 EXCEPT !.elf_offset = eo,
                               !.elf_start_offset = e.maps[prev].offset])

\* CreateMemory with a slip: the test of end_ <= start_ is missing.
CreateMemory_NoRangeTest(e, m, f, pm) == CreateMemoryOfRange(e, m, f, pm)

\* MapInfo::CreateMemory(process_memory)
CreateMemory(e, m, f, pm) ==
    IF e.maps[m].end <= e.maps[m].start THEN Returns(NullMem, f)
    ELSE CreateMemoryOfRange(e, m, f, pm)

(***************************************************************************)
(* Elf objects.  An Elf is [state, valid, load_bias, build_id]; state is   *)
(* "none" before new Elf, "live" while a shared_ptr owns it, "deleted"     *)
(* after the last shared_ptr<Elf> to it went away.                         *)
(***************************************************************************)
NoElf == [state |-> "none", valid |-> FALSE, load_bias |-> 0, build_id |-> ""]

\* new Elf(memory), Init(), and Invalidate() on an architecture mismatch.
NewElf(e, mem, expected_arch) ==
    LET valid == mem # NullMem /\ IsValidElf(e, mem) IN
    [state |-> "live",
     valid |-> valid /\ expected_arch = e.elfArch,
     load_bias |-> IF valid THEN e.elfBias ELSE 0,
     build_id |-> IF valid THEN e.elfBuildId ELSE ""]

\* static Elf::GetLoadBias(memory)
Elf_GetLoadBias(e, mem) ==
    IF mem # NullMem /\ IsValidElf(e, mem) THEN e.elfBias ELSE 0

\* static Elf::GetBuildID(memory)
Elf_GetBuildID(e, mem) ==
    IF mem # NullMem /\ IsValidElf(e, mem) THEN e.elfBuildId ELSE ""

\* The heap after the MapInfos' elf_ became newElf: an Elf no shared_ptr
\* owns any more is deleted.
Release(heap, newElf) ==
    [id \in ElfIds |->
        IF heap[id].state = "live" /\ \A m \in MapIds : newElf[m] # id
        THEN [heap[id] EXCEPT !.state = "deleted"]
        ELSE heap[id]]

(***************************************************************************)
(* Threads.  A thread is idle or inside one call; loc[t] holds the call's  *)
(* arguments (m, expected_arch, process_memory) and its local value v.     *)
(***************************************************************************)
Idle == [op |-> "none", m |-> "m1", arch |-> "ARCH_ARM64", pm |-> Null, v |-> 0]

Call(t, op, m, arch, pm, first) ==
    /\ pc[t] = "idle"
    /\ calls < MaxCalls
    /\ calls' = calls + 1
    /\ loc' = [loc EXCEPT ![t] = [op |-> op, m |-> m, arch |-> arch, pm |-> pm, v |-> 0]]
    /\ pc' = [pc EXCEPT ![t] = first]
    /\ UNCHANGED <<memVars, libVars, env, mapVars, histVars>>

Return(t) ==
    /\ pc' = [pc EXCEPT ![t] = "idle"]
    /\ loc' = [loc EXCEPT ![t] = Idle]

Goto(t, label) ==
    /\ pc' = [pc EXCEPT ![t] = label]
    /\ UNCHANGED loc

\* std::lock_guard<std::mutex> guard(mutex): blocks until the mutex is free.
Lock(t, m, label, next) ==
    /\ pc[t] = label
    /\ mutex[m] = Null
    /\ mutex' = [mutex EXCEPT ![m] = t]
    /\ Goto(t, next)
    /\ UNCHANGED <<memVars, libVars, env, elf, elf_offset, elf_start_offset, memory_backed_elf,
                   load_bias, build_id, elfs, calls, histVars>>

(***************************************************************************)
(* MapInfo::GetElf(process_memory, expected_arch).  Elf caching is off     *)
(* (Elf::CachingEnabled() is false unless a client turns it on), so        *)
(* `locked` stays false.                                                   *)
(***************************************************************************)
CallGetElf(t) ==
    \E m \in MapIds, arch \in Archs, pm \in {Null, "process_memory"} :
        Call(t, "GetElf", m, arch, pm, "GetElf_lock")

GetElf_Lock(t) == Lock(t, loc[t].m, "GetElf_lock", "GetElf_locked")

\* GetElf_Create with a slip: no Elf is made of a null memory, and nullptr is
\* returned.
GetElf_Create_NullForNoMemory(t) ==
    LET m == loc[t].m
        r == CreateMemory(env, m, Fields(m), loc[t].pm)
        id == NewElfId(m)
    IN /\ elf_offset' = [elf_offset EXCEPT ![m] = r.elf_offset]
       /\ elf_start_offset' = [elf_start_offset EXCEPT ![m] = r.elf_start_offset]
       /\ memory_backed_elf' = [memory_backed_elf EXCEPT ![m] = r.memory_backed_elf]
       /\ IF r.mem = NullMem
          THEN /\ obsElf' = [obsElf EXCEPT ![m] = @ \cup {Null}]
               /\ Return(t)
               /\ UNCHANGED <<elf, elfs>>
          ELSE /\ elfs' = [elfs EXCEPT ![id] = NewElf(env, r.mem, loc[t].arch)]
               /\ elf' = [elf EXCEPT ![m] = id]
               /\ Goto(t, "GetElf_unlocked")
               /\ UNCHANGED obsElf

\* Lines 232-247: CreateMemory, elf_.reset(new Elf(memory)), Init() and the
\* architecture check.
GetElf_Create(t) ==
    LET m == loc[t].m
        r == CreateMemory(env, m, Fields(m), loc[t].pm)
        id == NewElfId(m)
    IN /\ elf_offset' = [elf_offset EXCEPT ![m] = r.elf_offset]
       /\ elf_start_offset' = [elf_start_offset EXCEPT ![m] = r.elf_start_offset]
       /\ memory_backed_elf' = [memory_backed_elf EXCEPT ![m] = r.memory_backed_elf]
       /\ elfs' = [elfs EXCEPT ![id] = NewElf(env, r.mem, loc[t].arch)]
       /\ elf' = [elf EXCEPT ![m] = id]
       /\ Goto(t, "GetElf_unlocked")
       /\ UNCHANGED obsElf

\* Lines 218-253: under mutex_, return the Elf if there is one, else create
\* it; the guard's destructor unlocks.
GetElf_Locked(t) ==
    LET m == loc[t].m
    IN /\ pc[t] = "GetElf_locked"
       /\ mutex[m] = t
       /\ mutex' = [mutex EXCEPT ![m] = Null]
       /\ IF elf[m] # Null
          THEN /\ obsElf' = [obsElf EXCEPT ![m] = @ \cup {elf[m]}]
               /\ Return(t)
               /\ UNCHANGED <<elf, elf_offset, elf_start_offset,
                              memory_backed_elf, elfs>>
          ELSE GetElf_Create(t)
       /\ UNCHANGED <<memVars, libVars, env, load_bias, build_id, calls, retBias, retBuildId>>

\* Lines 255-258, without the lock.
GetElf_Unlocked(t) ==
    LET m == loc[t].m
        mi == env.maps[m]
        prev == mi.prev_real_map
    IN /\ pc[t] = "GetElf_unlocked"
       /\ IF ~elfs[elf[m]].valid
          THEN /\ elf_start_offset' = [elf_start_offset EXCEPT ![m] = mi.offset]
               /\ Goto(t, "GetElf_return")
          ELSE /\ UNCHANGED elf_start_offset
               /\ IF /\ prev # Null
                     /\ elf_start_offset[m] # mi.offset
                     /\ env.maps[prev].offset = elf_start_offset[m]
                     /\ env.maps[prev].name = mi.name
                  THEN Goto(t, "GetElf_lock_prev")
                  ELSE Goto(t, "GetElf_return")
       /\ UNCHANGED <<memVars, libVars, env, elf, elf_offset, memory_backed_elf, load_bias,
                      build_id, mutex, elfs, calls, histVars>>

GetElf_LockPrev(t) ==
    Lock(t, env.maps[loc[t].m].prev_real_map, "GetElf_lock_prev", "GetElf_prev_locked")

\* Lines 262-269 with a slip: the lock is taken and released, and each map
\* keeps the Elf it has.
GetElf_PrevLocked_NoShare(t) ==
    LET prev == env.maps[loc[t].m].prev_real_map
    IN /\ pc[t] = "GetElf_prev_locked"
       /\ mutex[prev] = t
       /\ mutex' = [mutex EXCEPT ![prev] = Null]
       /\ Goto(t, "GetElf_return")
       /\ UNCHANGED <<memVars, libVars, env, elf, elfs, memory_backed_elf, elf_offset,
                      elf_start_offset, load_bias, build_id, calls, histVars>>

\* Lines 262-269: under prev_real_map_->mutex_, share one Elf between the
\* read-only and the read-execute map.
GetElf_PrevLocked(t) ==
    LET m == loc[t].m
        prev == env.maps[m].prev_real_map
        newElf == IF elf[prev] = Null
                  THEN [elf EXCEPT ![prev] = elf[m]]
                  ELSE [elf EXCEPT ![m] = elf[prev]]
    IN /\ pc[t] = "GetElf_prev_locked"
       /\ mutex[prev] = t
       /\ mutex' = [mutex EXCEPT ![prev] = Null]
       /\ elf' = newElf
       /\ elfs' = Release(elfs, newElf)
       /\ memory_backed_elf' =
              IF elf[prev] = Null
              THEN [memory_backed_elf EXCEPT ![prev] = memory_backed_elf[m]]
              ELSE memory_backed_elf
       /\ Goto(t, "GetElf_return")
       /\ UNCHANGED <<memVars, libVars, env, elf_offset, elf_start_offset, load_bias, build_id,
                      calls, histVars>>

\* Line 271: return elf_.get()
GetElf_Return(t) ==
    /\ pc[t] = "GetElf_return"
    /\ obsElf' = [obsElf EXCEPT ![loc[t].m] = @ \cup {elf[loc[t].m]}]
    /\ Return(t)
    /\ UNCHANGED <<memVars, libVars, env, mapVars, calls, retBias, retBuildId>>

(***************************************************************************)
(* MapInfo::GetFunctionName(addr, name, func_offset)                       *)
(***************************************************************************)
CallGetFunctionName(t) ==
    \E m \in MapIds : Call(t, "GetFunctionName", m, "ARCH_ARM64", Null, "GetFunctionName_check")

\* Lines 275-281: lock, test elf_, unlock.
GetFunctionName_Check(t) ==
    /\ pc[t] = "GetFunctionName_check"
    /\ mutex[loc[t].m] = Null
    /\ IF elf[loc[t].m] = Null THEN Return(t) ELSE Goto(t, "GetFunctionName_call")
    /\ UNCHANGED <<memVars, libVars, env, mapVars, calls, histVars>>

\* Line 284: elf_->GetFunctionName(...), without the lock.
GetFunctionName_CallElf(t) ==
    /\ pc[t] = "GetFunctionName_call"
    /\ obsElf' = [obsElf EXCEPT ![loc[t].m] = @ \cup {elf[loc[t].m]}]
    /\ Return(t)
    /\ UNCHANGED <<memVars, libVars, env, mapVars, calls, retBias, retBuildId>>

(***************************************************************************)
(* MapInfo::GetLoadBias(process_memory)                                    *)
(***************************************************************************)
CallGetLoadBias(t) ==
    \E m \in MapIds, pm \in {Null, "process_memory"} :
        Call(t, "GetLoadBias", m, "ARCH_ARM64", pm, "GetLoadBias_load")

ReturnBias(t, value) ==
    /\ retBias' = [retBias EXCEPT ![loc[t].m] = @ \cup {value}]
    /\ Return(t)

\* load_bias_ = value
StoreLoadBias(m, value) == load_bias' = [load_bias EXCEPT ![m] = value]

\* Lines 288-291: the atomic load and the early return.
GetLoadBias_Load(t) ==
    /\ pc[t] = "GetLoadBias_load"
    /\ IF load_bias[loc[t].m] # INT64_MAX
       THEN ReturnBias(t, load_bias[loc[t].m])
       ELSE Goto(t, "GetLoadBias_lock") /\ UNCHANGED retBias
    /\ UNCHANGED <<memVars, libVars, env, mapVars, calls, obsElf, retBuildId>>

GetLoadBias_Lock(t) == Lock(t, loc[t].m, "GetLoadBias_lock", "GetLoadBias_locked")

\* Lines 293-306: under mutex_, take the load bias of the Elf if there is one.
GetLoadBias_Locked(t) ==
    LET m == loc[t].m IN
    /\ pc[t] = "GetLoadBias_locked"
    /\ mutex[m] = t
    /\ mutex' = [mutex EXCEPT ![m] = Null]
    /\ IF elf[m] # Null
       THEN IF elfs[elf[m]].valid
            THEN /\ StoreLoadBias(m, elfs[elf[m]].load_bias)
                 /\ ReturnBias(t, elfs[elf[m]].load_bias)
            ELSE /\ StoreLoadBias(m, 0)
                 /\ ReturnBias(t, 0)
       ELSE /\ Goto(t, "GetLoadBias_create")
            /\ UNCHANGED <<load_bias, retBias>>
    /\ UNCHANGED <<memVars, libVars, env, elf, elf_offset, elf_start_offset, memory_backed_elf,
                   build_id, elfs, calls, obsElf, retBuildId>>

\* Lines 310-311: CreateMemory and the static Elf::GetLoadBias, without the
\* lock.
GetLoadBias_Create(t) ==
    LET m == loc[t].m
        r == CreateMemory(env, m, Fields(m), loc[t].pm)
    IN /\ pc[t] = "GetLoadBias_create"
       /\ elf_offset' = [elf_offset EXCEPT ![m] = r.elf_offset]
       /\ elf_start_offset' = [elf_start_offset EXCEPT ![m] = r.elf_start_offset]
       /\ memory_backed_elf' = [memory_backed_elf EXCEPT ![m] = r.memory_backed_elf]
       /\ loc' = [loc EXCEPT ![t].v = Elf_GetLoadBias(env, r.mem)]
       /\ pc' = [pc EXCEPT ![t] = "GetLoadBias_store"]
       /\ UNCHANGED <<memVars, libVars, env, elf, load_bias, build_id, mutex, elfs, calls, histVars>>

\* Lines 312-313.
GetLoadBias_Store(t) ==
    /\ pc[t] = "GetLoadBias_store"
    /\ StoreLoadBias(loc[t].m, loc[t].v)
    /\ ReturnBias(t, loc[t].v)
    /\ UNCHANGED <<memVars, libVars, env, elf, elf_offset, elf_start_offset, memory_backed_elf,
                   build_id, mutex, elfs, calls, obsElf, retBuildId>>

(***************************************************************************)
(* MapInfo::GetBuildID() and MapInfo::SetBuildID(new_build_id).  build_id  *)
(* holds Null or the string the stored SharedString* points to.            *)
(***************************************************************************)
BuildIds == {"", "aa", "bb"}

CallGetBuildID(t) ==
    \E m \in MapIds : Call(t, "GetBuildID", m, "ARCH_ARM64", Null, "GetBuildID_load")

ReturnBuildId(t, value) ==
    /\ retBuildId' = [retBuildId EXCEPT ![loc[t].m] = @ \cup {value}]
    /\ Return(t)

\* CompareExchange with a slip: a plain store.
CompareExchange_Store(stored, new) == new

\* build_id_.compare_exchange_strong(expected_id = nullptr, new): the stored
\* value afterwards.
CompareExchange(stored, new) == IF stored = Null THEN new ELSE stored

\* SetBuildID, lines 350-361: publish if nothing is stored, return what is
\* stored afterwards.
SetBuildID(t, m, new_build_id) ==
    /\ build_id' = [build_id EXCEPT ![m] = CompareExchange(@, new_build_id)]
    /\ ReturnBuildId(t, CompareExchange(build_id[m], new_build_id))

\* Lines 321-324.
GetBuildID_Load(t) ==
    /\ pc[t] = "GetBuildID_load"
    /\ IF build_id[loc[t].m] # Null
       THEN ReturnBuildId(t, build_id[loc[t].m])
       ELSE Goto(t, "GetBuildID_elf") /\ UNCHANGED retBuildId
    /\ UNCHANGED <<memVars, libVars, env, mapVars, calls, obsElf, retBias>>

\* Lines 332-334: elf_obj = elf_.get() between mutex_.lock() and unlock().
GetBuildID_Elf(t) ==
    /\ pc[t] = "GetBuildID_elf"
    /\ mutex[loc[t].m] = Null
    /\ loc' = [loc EXCEPT ![t].v = elf[loc[t].m]]
    /\ pc' = [pc EXCEPT ![t] = "GetBuildID_read"]
    /\ UNCHANGED <<memVars, libVars, env, mapVars, calls, histVars>>

\* Lines 335-346: the build id of the Elf, or of the file when there is no
\* Elf yet (GetFileMemory writes elf_offset_ and elf_start_offset_).
GetBuildID_Read(t) ==
    LET m == loc[t].m
        r == GetFileMemory(env, m, Fields(m))
    IN /\ pc[t] = "GetBuildID_read"
       /\ IF loc[t].v # Null
          THEN /\ loc' = [loc EXCEPT ![t].v = elfs[loc[t].v].build_id]
               /\ obsElf' = [obsElf EXCEPT ![m] = @ \cup {loc[t].v}]
               /\ UNCHANGED <<elf_offset, elf_start_offset>>
          ELSE /\ loc' = [loc EXCEPT ![t].v = Elf_GetBuildID(env, r.mem)]
               /\ elf_offset' = [elf_offset EXCEPT ![m] = r.elf_offset]
               /\ elf_start_offset' = [elf_start_offset EXCEPT ![m] = r.elf_start_offset]
               /\ UNCHANGED obsElf
       /\ pc' = [pc EXCEPT ![t] = "GetBuildID_set"]
       /\ UNCHANGED <<memVars, libVars, env, elf, memory_backed_elf, load_bias, build_id, mutex,
                      elfs, calls, retBias, retBuildId>>

\* Line 347: return SetBuildID(std::move(result)).
GetBuildID_Set(t) ==
    /\ pc[t] = "GetBuildID_set"
    /\ SetBuildID(t, loc[t].m, loc[t].v)
    /\ UNCHANGED <<memVars, libVars, env, elf, elf_offset, elf_start_offset, memory_backed_elf,
                   load_bias, mutex, elfs, calls, obsElf, retBias>>

\* A direct call of SetBuildID (the tests and the offline tools make it).
CallSetBuildID(t) ==
    \E m \in MapIds, id \in BuildIds :
        /\ pc[t] = "idle"
        /\ calls < MaxCalls
        /\ calls' = calls + 1
        /\ build_id' = [build_id EXCEPT ![m] = CompareExchange(@, id)]
        /\ retBuildId' = [retBuildId EXCEPT ![m] = @ \cup {CompareExchange(build_id[m], id)}]
        /\ UNCHANGED <<memVars, libVars, env, elf, elf_offset, elf_start_offset, memory_backed_elf,
                       load_bias, mutex, elfs, pc, loc, obsElf, retBias>>

(***************************************************************************)
(* The MapInfos after construction, any target, and every interleaving of  *)
(* the threads' calls.                                                     *)
(***************************************************************************)
\* No method of a MemoryRemote has been used yet.
NoLog == [first |-> Null, late |-> {}]

\* The other parts before any call on them.
\* No catalog, and no call on one.
NoCatalog == [impl |-> "none"]

NoCatalogLog ==
    [resolves |-> 0, done |-> 0, read |-> <<>>, loaded |-> <<>>, loads |-> <<>>, found |-> {},
     last |-> [op |-> "none"]]

\* No DexFile, and no call on one.
NoDex == [kind |-> "none"]

NoDexLog == [op |-> "none"]

\* g_mapped_dex_files empty, g_lock free, no DexFile made.
NoInterned ==
    [g_mapped_dex_files |-> <<>>, g_lock |-> Null, objects |-> <<>>,
     held |-> [t \in Threads |-> {}]]

NoInternLog == [op |-> "none"]

IdleDex ==
    /\ dex = NoDex
    /\ dexLog = NoDexLog

IdleIntern ==
    /\ interned = NoInterned
    /\ internLog = NoInternLog

IdleLib ==
    /\ remoteLog = NoLog
    /\ initOk = FALSE
    /\ catalog = NoCatalog
    /\ catalogLog = NoCatalogLog
    /\ IdleDex
    /\ IdleIntern

InitMapInfo ==
    /\ env \in Scenarios
    /\ elf = [m \in MapIds |-> Null]
    /\ elf_offset = [m \in MapIds |-> 0]
    /\ elf_start_offset = [m \in MapIds |-> 0]
    /\ memory_backed_elf = [m \in MapIds |-> FALSE]
    /\ load_bias = [m \in MapIds |-> INT64_MAX]
    /\ build_id = [m \in MapIds |-> Null]
    /\ mutex = [m \in MapIds |-> Null]
    /\ elfs = [id \in ElfIds |-> NoElf]
    /\ pc = [t \in Threads |-> "idle"]
    /\ loc = [t \in Threads |-> Idle]
    /\ calls = 0
    /\ obsElf = [m \in MapIds |-> {}]
    /\ retBias = [m \in MapIds |-> {}]
    /\ retBuildId = [m \in MapIds |-> {}]
    /\ object = NullMem
    /\ last = [kind |-> "none"]
    /\ IdleLib

GetElfStep(t) ==
    \/ CallGetElf(t)
    \/ GetElf_Lock(t)
    \/ GetElf_Locked(t)
    \/ GetElf_Unlocked(t)
    \/ GetElf_LockPrev(t)
    \/ GetElf_PrevLocked(t)
    \/ GetElf_Return(t)

GetFunctionNameStep(t) ==
    \/ CallGetFunctionName(t)
    \/ GetFunctionName_Check(t)
    \/ GetFunctionName_CallElf(t)

GetLoadBiasStep(t) ==
    \/ CallGetLoadBias(t)
    \/ GetLoadBias_Load(t)
    \/ GetLoadBias_Lock(t)
    \/ GetLoadBias_Locked(t)
    \/ GetLoadBias_Create(t)
    \/ GetLoadBias_Store(t)

GetBuildIDStep(t) ==
    \/ CallGetBuildID(t)
    \/ GetBuildID_Load(t)
    \/ GetBuildID_Elf(t)
    \/ GetBuildID_Read(t)
    \/ GetBuildID_Set(t)
    \/ CallSetBuildID(t)

NextElf == \E t \in Threads : GetElfStep(t) \/ GetFunctionNameStep(t)

SpecElf == InitMapInfo /\ [][NextElf]_vars

NextLoadBias == \E t \in Threads : GetElfStep(t) \/ GetLoadBiasStep(t)

SpecLoadBias == InitMapInfo /\ [][NextLoadBias]_vars

NextBuildID == \E t \in Threads : GetElfStep(t) \/ GetBuildIDStep(t)

SpecBuildID == InitMapInfo /\ [][NextBuildID]_vars

(***************************************************************************)
(* Claims about MapInfo.                                                   *)
(***************************************************************************)

\* C1: the ELF pointer of a MapInfo is write-once: every Elf a call on the
\* MapInfo observed (GetElf returned it, GetFunctionName or GetBuildID used
\* it) is still the MapInfo's Elf and has not been deleted.
C1_ElfWriteOnce ==
    \A m \in MapIds : \A e \in obsElf[m] :
        e = elf[m] /\ elfs[e].state = "live"

\* C2: once load_bias_ has left INT64_MAX it never changes again.
C2_LoadBiasPublishedOnce ==
    [][\A m \in MapIds :
          load_bias[m] # INT64_MAX => load_bias'[m] = load_bias[m]]_vars

\* C3: every GetBuildID and SetBuildID call on a MapInfo returns the build id
\* that was published first, and a published build id is never replaced.
C3_BuildIdPublishedOnce ==
    /\ [](\A m \in MapIds : retBuildId[m] \subseteq {build_id[m]} \ {Null})
    /\ [][\A m \in MapIds :
             build_id[m] # Null => build_id'[m] = build_id[m]]_vars

\* A call is about to publish a build id other than the one already
\* published and returned.
C3_Witness ==
    \E t \in Threads :
        /\ pc[t] = "GetBuildID_set"
        /\ retBuildId[loc[t].m] # {}
        /\ build_id[loc[t].m] # loc[t].v

\* C4: every pointer GetElf returned is non-null and points to an Elf object.
C4_GetElfNeverNull ==
    \A m \in MapIds : \A e \in obsElf[m] : e # Null /\ elfs[e].state # "none"

\* GetElf returned on a device map, for which CreateMemory yields no memory.
C4_Witness ==
    \E m \in MapIds :
        /\ MAPS_FLAGS_DEVICE_MAP \in env.maps[m].flags
        /\ obsElf[m] # {}
        /\ \A e \in obsElf[m] : e # Null /\ ~elfs[e].valid

kMaxIovecs == 64

UINTPTR_MAX == UINT64_MAX

SizeofLong == 8

Max(a, b) == IF a > b THEN a ELSE b

Result(n, data, mem, reads) == [n |-> n, data |-> data, mem |-> mem, reads |-> reads]

NoBytes(mem) == Result(0, <<>>, mem, <<>>)

\* memcpy(&dst[at], &source[src], len), after the copies in data.
Memcpy(data, at, src, len) ==
    IF len = 0 THEN data
    ELSE IF /\ data # <<>>
            /\ data[Len(data)].dst + data[Len(data)].len = at
            /\ data[Len(data)].src + data[Len(data)].len = src
         THEN [data EXCEPT ![Len(data)].len = @ + len]
         ELSE Append(data, [dst |-> at, src |-> src, len |-> len])

RECURSIVE MemcpyAll(_, _, _, _)
\* The copies more[i..], made into dst + at, after the copies in data.
MemcpyAll(data, more, i, at) ==
    IF i > Len(more) THEN data
    ELSE MemcpyAll(Memcpy(data, more[i].dst + at, more[i].src, more[i].len),
                   more, i + 1, at)

RECURSIVE CopyOut(_, _, _, _, _, _)
\* memcpy(&dst[at], &buf[from], len) where buf holds the copies in held:
\* the copies of held[i..] that lie in buf[from, from + len).
CopyOut(data, held, i, from, len, at) ==
    IF i > Len(held) THEN data
    ELSE LET lo == Max(held[i].dst, from)
             hi == Min(held[i].dst + held[i].len, from + len)
         IN CopyOut(IF lo < hi
                    THEN Memcpy(data, at + (lo - from),
                                held[i].src + (lo - held[i].dst), hi - lo)
                    ELSE data,
                    held, i + 1, from, len, at)

(***************************************************************************)
(* The target of a process read: the pages of it that are readable, and    *)
(* whether process_vm_readv and ptrace are permitted on it.  `forced` are   *)
(* the pages mapped without read permission (execute-only text):           *)
(* process_vm_readv fails on them with EFAULT, while PTRACE_PEEKTEXT       *)
(* reads them.                                                             *)
(***************************************************************************)
Target(readable, vm, ptrace) ==
    [readable |-> readable, vm |-> vm, ptrace |-> ptrace, forced |-> {}]

\* A target both calls are permitted on, with execute-only pages.
ExecuteOnlyTarget(readable, forced) ==
    [readable |-> readable, vm |-> TRUE, ptrace |-> TRUE, forced |-> forced]

PageOf(addr) == addr \div PageSize

RECURSIVE Transferred(_, _, _)
\* The bytes process_vm_readv transfers of src_iovs[i..]: whole elements, up
\* to the first one that points to an invalid region.
Transferred(target, src_iovs, i) ==
    IF i > Len(src_iovs) \/ PageOf(src_iovs[i].iov_base) \notin target.readable
    THEN 0
    ELSE src_iovs[i].iov_len + Transferred(target, src_iovs, i + 1)

\* process_vm_readv(pid, &dst_iov, 1, src_iovs, iovecs_used, 0)
process_vm_readv(target, src_iovs) ==
    LET rc == Transferred(target, src_iovs, 1)
    IN IF ~target.vm \/ rc = 0 THEN -1 ELSE rc

RECURSIVE SplitAcrossPages(_, _, _)
\* The inner loop of ProcessVmRead: fills src_iovs from cur, one element per
\* page, up to kMaxIovecs elements.
SplitAcrossPages(cur, len, src_iovs) ==
    IF len = 0 \/ Len(src_iovs) = kMaxIovecs
    THEN [fault |-> FALSE, cur |-> cur, len |-> len, src_iovs |-> src_iovs]
    ELSE IF cur >= UINTPTR_MAX
    THEN [fault |-> TRUE, cur |-> cur, len |-> len, src_iovs |-> src_iovs]
    ELSE LET misalignment == cur % PageSize
             iov_len == Min(PageSize - misalignment, len)
         IN IF Add64Overflows(cur, iov_len)
            THEN [fault |-> TRUE, cur |-> cur, len |-> len - iov_len,
                  src_iovs |-> src_iovs]
            ELSE SplitAcrossPages(cur + iov_len, len - iov_len,
                     Append(src_iovs, [iov_base |-> cur, iov_len |-> iov_len]))

RECURSIVE ProcessVmReadFrom(_, _, _, _, _)
\* The outer loop of ProcessVmRead, with total_read bytes read so far.
ProcessVmReadFrom(target, cur, len, total_read, data) ==
    IF len = 0 THEN [n |-> total_read, data |-> data]
    ELSE LET s == SplitAcrossPages(cur, len, <<>>)
             rc == process_vm_readv(target, s.src_iovs)
         IN IF s.fault \/ rc = -1
            THEN [n |-> total_read, data |-> data]
            ELSE ProcessVmReadFrom(target, s.cur, s.len, total_read + rc,
                                   Memcpy(data, total_read, cur, rc))

\* ProcessVmRead(pid, remote_src, dst, len)
ProcessVmRead(target, remote_src, len) ==
    ProcessVmReadFrom(target, remote_src, len, 0, <<>>)

\* PtraceReadLong(pid, addr, &value): whether the word was read.
PtraceReadLong(target, addr) ==
    target.ptrace /\ PageOf(addr) \in target.readable \cup target.forced

\* The for loop of PtraceRead over `words` words from addr: the number of
\* words read when it ends, which is the index of the first word whose read
\* fails, or words when none fails.
PtraceReadWords(target, addr, words) ==
    LET failed == {i \in 0 .. words - 1 : ~PtraceReadLong(target, addr + i * SizeofLong)}
    IN IF failed = {} THEN words
       ELSE CHOOSE i \in failed : \A j \in failed : i <= j

\* PtraceRead(pid, addr, dst, bytes)
PtraceRead(target, addr, bytes) ==
    LET align_bytes == addr % SizeofLong
        copy_bytes == IF align_bytes # 0 THEN Min(SizeofLong - align_bytes, bytes) ELSE 0
        rest == bytes - copy_bytes
        words == rest \div SizeofLong
        read == PtraceReadWords(target, addr + copy_bytes, words)
        left_over == rest % SizeofLong
        bytes_read ==
            IF read < words THEN copy_bytes + read * SizeofLong
            ELSE IF left_over # 0
                    /\ PtraceReadLong(target, addr + copy_bytes + words * SizeofLong)
            THEN copy_bytes + words * SizeofLong + left_over
            ELSE copy_bytes + words * SizeofLong
    IN IF Add64Overflows(addr, bytes) THEN [n |-> 0, data |-> <<>>]
       ELSE IF align_bytes # 0 /\ ~PtraceReadLong(target, addr - align_bytes)
       THEN [n |-> 0, data |-> <<>>]
       ELSE [n |-> bytes_read, data |-> Memcpy(<<>>, 0, addr, bytes_read)]

\* A MemoryBuffer of size bytes.
MemoryBuffer(size) == [kind |-> "buffer", size |-> size]

\* MemoryBuffer::Read
MemoryBuffer_Read(mem, addr, size) ==
    IF addr >= mem.size THEN NoBytes(mem)
    ELSE LET bytes_left == mem.size - addr
             actual_len == Min(bytes_left, size)
         IN Result(actual_len, Memcpy(<<>>, 0, addr, actual_len), mem, <<>>)

\* MemoryFileAtOffset::Read
MemoryFileAtOffset_Read(mem, addr, size) ==
    IF addr >= mem.size THEN NoBytes(mem)
    ELSE LET bytes_left == mem.size - addr
             actual_len == Min(bytes_left, size)
         IN Result(actual_len, Memcpy(<<>>, 0, addr, actual_len), mem, <<>>)

\* MemoryLocal, reading this process.
MemoryLocal(readable) == [kind |-> "local", target |-> Target(readable, TRUE, FALSE)]

\* MemoryLocal::Read
MemoryLocal_Read(mem, addr, size) ==
    LET r == ProcessVmRead(mem.target, addr, size)
    IN Result(r.n, r.data, mem, <<>>)

\* MemoryRemote(pid): read_redirect_func_ starts at 0.
MemoryRemote(target) == [kind |-> "remote", target |-> target, read_redirect_func |-> Null]

\* MemoryRemote::Read
MemoryRemote_Read(mem, addr, size) ==
    LET vm == ProcessVmRead(mem.target, addr, size)
        pt == PtraceRead(mem.target, addr, size)
    IN IF mem.read_redirect_func = "ProcessVmRead" THEN Result(vm.n, vm.data, mem, <<>>)
       ELSE IF mem.read_redirect_func = "PtraceRead" THEN Result(pt.n, pt.data, mem, <<>>)
       ELSE IF vm.n > 0
       THEN Result(vm.n, vm.data, [mem EXCEPT !.read_redirect_func = "ProcessVmRead"], <<>>)
       ELSE IF pt.n > 0
       THEN Result(pt.n, pt.data, [mem EXCEPT !.read_redirect_func = "PtraceRead"], <<>>)
       ELSE Result(pt.n, pt.data, mem, <<>>)

\* A MemoryOfflineBuffer over data[0, end - start), exposed at [start, end).
MemoryOfflineBuffer(start, end) == [kind |-> "offline_buffer", start |-> start, end |-> end]

\* MemoryOfflineBuffer::Read
MemoryOfflineBuffer_Read(mem, addr, size) ==
    IF addr < mem.start \/ addr >= mem.end THEN NoBytes(mem)
    ELSE LET read_length == Min(size, mem.end - addr)
         IN Result(read_length, Memcpy(<<>>, 0, addr - mem.start, read_length), mem, <<>>)

RECURSIVE Read(_, _, _)

\* An (addr, size) pair a Read passed on to the object it wraps.
Passed(addr, size) == [addr |-> addr, size |-> size]

\* MemoryRange::Read with a slip: read_offset > length_ for >=, so that the
\* address at the end of the range is served.
MemoryRange_Read_PastEnd(mem, addr, size) ==
    IF addr < mem.offset THEN NoBytes(mem)
    ELSE LET read_offset == addr - mem.offset
             read_length == Min(size, mem.length - read_offset)
             read_addr == read_offset + mem.begin
             r == Read(mem.memory, read_addr, read_length)
         IN IF read_offset > mem.length THEN NoBytes(mem)
            ELSE IF Add64Overflows(read_offset, mem.begin) THEN NoBytes(mem)
            ELSE Result(r.n, r.data, [mem EXCEPT !.memory = r.mem],
                        <<Passed(read_addr, read_length)>>)

\* MemoryRange::Read
MemoryRange_Read(mem, addr, size) ==
    IF addr < mem.offset THEN NoBytes(mem)
    ELSE LET read_offset == addr - mem.offset
             read_length == Min(size, mem.length - read_offset)
             read_addr == read_offset + mem.begin
             r == Read(mem.memory, read_addr, read_length)
         IN IF read_offset >= mem.length THEN NoBytes(mem)
            ELSE IF Add64Overflows(read_offset, mem.begin) THEN NoBytes(mem)
            ELSE Result(r.n, r.data, [mem EXCEPT !.memory = r.mem],
                        <<Passed(read_addr, read_length)>>)

\* MemoryRanges::Read with a slip: a read the range ends short is continued
\* in the range that follows.
MemoryRanges_Read_Across(mem, addr, size) ==
    IF HasUpperBound(mem.maps, addr)
    THEN LET k == UpperBound(mem.maps, addr)
             r == Read(mem.maps[k], addr, size)
             more == Read(mem.maps[UpperBound(mem.maps, addr + r.n)], addr + r.n,
                          size - r.n)
         IN IF r.n > 0 /\ r.n < size /\ HasUpperBound(mem.maps, addr + r.n)
            THEN Result(r.n + more.n, MemcpyAll(r.data, more.data, 1, r.n), mem,
                        <<Passed(addr, size)>>)
            ELSE Result(r.n, r.data, [mem EXCEPT !.maps[k] = r.mem],
                        <<Passed(addr, size)>>)
    ELSE NoBytes(mem)

\* MemoryRanges::Read
MemoryRanges_Read(mem, addr, size) ==
    IF HasUpperBound(mem.maps, addr)
    THEN LET k == UpperBound(mem.maps, addr)
             r == Read(mem.maps[k], addr, size)
         IN Result(r.n, r.data, [mem EXCEPT !.maps[k] = r.mem], <<Passed(addr, size)>>)
    ELSE NoBytes(mem)

\* A MemoryOffline before Init, or whose Init returned false.
MemoryOffline == [kind |-> "offline", memory |-> NullMem]

\* MemoryOffline::Init(file, offset) on the object mem, memory_file being the
\* file memory made of its arguments and start the first uint64_t of it.
\* memory_ is assigned on success only.
MemoryOffline_Init(mem, memory_file, start) ==
    IF memory_file = NullMem THEN mem
    ELSE IF MemoryFileAtOffset_Read(memory_file, 0, SizeofLong).n # SizeofLong
    THEN mem
    ELSE IF memory_file.size < SizeofLong THEN mem
    ELSE [mem EXCEPT
             !.memory = MemoryRange(memory_file, SizeofLong,
                                    memory_file.size - SizeofLong, start)]

\* MemoryOffline::Read
MemoryOffline_Read(mem, addr, size) ==
    IF mem.memory = NullMem THEN NoBytes(mem)
    ELSE LET r == Read(mem.memory, addr, size)
         IN Result(r.n, r.data, [mem EXCEPT !.memory = r.mem], <<Passed(addr, size)>>)

\* A MemoryOfflineParts after Add(memory) for each of memories.
MemoryOfflineParts(memories) == [kind |-> "offline_parts", memories |-> memories]

RECURSIVE MemoryOfflineParts_ReadFrom(_, _, _, _, _)
\* The loop of MemoryOfflineParts::Read from memories_[i] on.
MemoryOfflineParts_ReadFrom(mem, addr, size, i, reads) ==
    IF i > Len(mem.memories) THEN Result(0, <<>>, mem, reads)
    ELSE LET r == Read(mem.memories[i], addr, size)
         IN IF r.n # 0
            THEN Result(r.n, r.data, mem, Append(reads, Passed(addr, size)))
            ELSE MemoryOfflineParts_ReadFrom(mem, addr, size, i + 1,
                                             Append(reads, Passed(addr, size)))

\* MemoryOfflineParts::Read
MemoryOfflineParts_Read(mem, addr, size) ==
    MemoryOfflineParts_ReadFrom(mem, addr, size, 1, <<>>)

(***************************************************************************)
(* MemoryCache: cache_ maps a page number to the kCacheSize bytes fetched  *)
(* for it.                                                                 *)
(***************************************************************************)
kCacheBits == 12

kCacheSize == 2 ^ kCacheBits

kCacheMask == kCacheSize - 1

\* The size up to which MemoryCache::Read uses the cache.
kCacheMaxRead == 64

\* new MemoryCache(impl)
MemoryCache(impl) == [kind |-> "cache", impl |-> impl, cache |-> <<>>]

\* cache_[addr_page] filled with the bytes held.
CachePut(cache, addr_page, held) ==
    [p \in DOMAIN cache \cup {addr_page} |-> IF p = addr_page THEN held ELSE cache[p]]

\* CacheLookup with a slip: the entry of a page whose fetch failed is kept
\* and used.
CacheLookup_KeepFailed(mem, addr_page) ==
    LET page_addr == (addr_page * kCacheSize) % AddrSpace
        fetch == Read(mem.impl, page_addr, kCacheSize)
    IN IF addr_page \in DOMAIN mem.cache
       THEN [ok |-> TRUE, cache_dst |-> mem.cache[addr_page], mem |-> mem, reads |-> <<>>]
       ELSE [ok |-> TRUE, cache_dst |-> fetch.data,
             mem |-> [mem EXCEPT !.impl = fetch.mem,
                                 !.cache = CachePut(mem.cache, addr_page, fetch.data)],
             reads |-> <<Passed(page_addr, kCacheSize)>>]

\* CacheLookup with a slip: the entry made for a page whose fetch failed is
\* not erased; it holds what the fetch stored before it failed.
CacheLookup_NoErase(mem, addr_page) ==
    LET page_addr == (addr_page * kCacheSize) % AddrSpace
        fetch == Read(mem.impl, page_addr, kCacheSize)
    IN IF addr_page \in DOMAIN mem.cache
       THEN [ok |-> TRUE, cache_dst |-> mem.cache[addr_page], mem |-> mem, reads |-> <<>>]
       ELSE [ok |-> fetch.n = kCacheSize, cache_dst |-> fetch.data,
             mem |-> [mem EXCEPT !.impl = fetch.mem,
                                 !.cache = CachePut(mem.cache, addr_page, fetch.data)],
             reads |-> <<Passed(page_addr, kCacheSize)>>]

\* The part of MemoryCache::Read that looks addr_page up and fetches it on a
\* miss: whether cache_dst holds the page afterwards.
CacheLookup(mem, addr_page) ==
    LET page_addr == (addr_page * kCacheSize) % AddrSpace
        fetch == Read(mem.impl, page_addr, kCacheSize)
    IN IF addr_page \in DOMAIN mem.cache
       THEN [ok |-> TRUE, cache_dst |-> mem.cache[addr_page], mem |-> mem, reads |-> <<>>]
       ELSE IF fetch.n = kCacheSize
       THEN [ok |-> TRUE, cache_dst |-> fetch.data,
             mem |-> [mem EXCEPT !.impl = fetch.mem,
                                 !.cache = CachePut(mem.cache, addr_page, fetch.data)],
             reads |-> <<Passed(page_addr, kCacheSize)>>]
       ELSE [ok |-> FALSE, cache_dst |-> <<>>,
             mem |-> [mem EXCEPT !.impl = fetch.mem],
             reads |-> <<Passed(page_addr, kCacheSize)>>]

\* The return of impl_->Read(addr, dst + at, size) + at.
CacheFallback(mem, data, reads, addr, size, at) ==
    LET r == Read(mem.impl, addr, size)
    IN Result(r.n + at, MemcpyAll(data, r.data, 1, at), [mem EXCEPT !.impl = r.mem],
              Append(reads, Passed(addr, size)))

\* MemoryCache::Read
MemoryCache_Read(mem, addr, size) ==
    LET addr_page == addr \div kCacheSize
        first == CacheLookup(mem, addr_page)
        max_read == Sub64(((addr_page + 1) * kCacheSize) % AddrSpace, addr)
        second == CacheLookup(first.mem, addr_page + 1)
        head == CopyOut(<<>>, first.cache_dst, 1, addr % (kCacheMask + 1), max_read, 0)
    IN IF size > kCacheMaxRead THEN CacheFallback(mem, <<>>, <<>>, addr, size, 0)
       ELSE IF ~first.ok THEN CacheFallback(first.mem, <<>>, first.reads, addr, size, 0)
       ELSE IF size <= max_read
       THEN Result(size, CopyOut(<<>>, first.cache_dst, 1, addr % (kCacheMask + 1), size, 0),
                   first.mem, first.reads)
       ELSE IF ~second.ok
       THEN CacheFallback(second.mem, head, first.reads \o second.reads,
                          ((addr_page + 1) * kCacheSize) % AddrSpace,
                          size - max_read, max_read)
       ELSE Result(size, CopyOut(head, second.cache_dst, 1, 0, size - max_read, max_read),
                   second.mem, first.reads \o second.reads)

(***************************************************************************)
(* MemoryXz.  A block is [decompressed_size, decompressed, sound]:         *)
(* decompressed says decompressed_data is there, sound whether Decompress  *)
(* of the block can succeed.                                               *)
(***************************************************************************)
kWholeBlockSizeLog2 == 31

ShiftRight(a, k) == IF k >= AddrBits THEN 0 ELSE a \div (2 ^ k)

ShiftLeft(a, k) == IF k >= AddrBits THEN 0 ELSE (a * (2 ^ k)) % AddrSpace

RECURSIVE Ctz(_)
\* __builtin_ctz(x), x > 0
Ctz(x) == IF x % 2 = 1 THEN 0 ELSE 1 + Ctz(x \div 2)

RECURSIVE Sum(_, _)
Sum(sizes, i) == IF i > Len(sizes) THEN 0 ELSE sizes[i] + Sum(sizes, i + 1)

\* MemoryXz::Init(), ReadBlocks having found blocks of these decompressed
\* sizes; unsound are the indexes of the blocks that cannot be decompressed.
MemoryXz_Init(sizes, unsound) ==
    LET block_size_log2 == Ctz(sizes[1])
        correct_size(i) == sizes[i] = 2 ^ block_size_log2
        lazy == [i \in DOMAIN sizes |->
                    [decompressed_size |-> sizes[i], decompressed |-> FALSE,
                     sound |-> i \notin unsound]]
        xz(blocks, log2, used) ==
            [kind |-> "xz", blocks |-> blocks, block_size_log2 |-> log2,
             size |-> Sum(sizes, 1), used |-> used]
    IN IF sizes = <<>> THEN NullMem
       ELSE IF Len(sizes) = 1 THEN xz(lazy, kWholeBlockSizeLog2, 0)
       ELSE IF /\ \A i \in 1 .. Len(sizes) - 1 : correct_size(i)
               /\ sizes[Len(sizes)] <= 2 ^ block_size_log2
       THEN xz(lazy, block_size_log2, 0)
       ELSE IF unsound # {} THEN NullMem
       ELSE xz(<<[decompressed_size |-> Sum(sizes, 1), decompressed |-> TRUE,
                  sound |-> TRUE]>>, kWholeBlockSizeLog2, Sum(sizes, 1))

\* copy_bytes with a slip: the rest of the block, whatever size is.
XzCopyBytes_RestOfBlock(size, block, offset) == Sub64(block.decompressed_size, offset)

\* copy_bytes of MemoryXz::Read: std::min<size_t>(size, decompressed_size - offset)
XzCopyBytes(size, block, offset) == Min(size, Sub64(block.decompressed_size, offset))

\* The test of MemoryXz::Read with a slip: Decompress whatever the block holds.
XzNotResident_Always(block) == TRUE

\* block->decompressed_data == nullptr
XzNotResident(block) == ~block.decompressed

\* MemoryXz::Decompress of block i (counted from 0) when it succeeds: the
\* block gets its decompressed_data and used_ grows by its size.
MemoryXz_Decompress(mem, i) ==
    [mem EXCEPT !.blocks[i + 1].decompressed = TRUE,
                !.used = @ + mem.blocks[i + 1].decompressed_size]

RECURSIVE MemoryXz_ReadFrom(_, _, _, _, _)
\* The loop of MemoryXz::Read from block i (counted from 0) on, dst being the
\* position reached in the buffer.
MemoryXz_ReadFrom(mem, addr, size, i, data) ==
    LET dst == IF data = <<>> THEN 0 ELSE data[Len(data)].dst + data[Len(data)].len
        block == mem.blocks[i + 1]
        offset == Sub64(addr, ShiftLeft(i, mem.block_size_log2))
        copy_bytes == XzCopyBytes(size, block, offset)
        mem1 == IF XzNotResident(block) THEN MemoryXz_Decompress(mem, i) ELSE mem
    IN IF i >= Len(mem.blocks) THEN Result(dst, data, mem, <<>>)
       ELSE IF XzNotResident(block) /\ ~block.sound THEN Result(dst, data, mem, <<>>)
       ELSE IF size - copy_bytes = 0
       THEN Result(dst + copy_bytes, Memcpy(data, dst, addr, copy_bytes), mem1, <<>>)
       ELSE MemoryXz_ReadFrom(mem1, addr + copy_bytes, size - copy_bytes, i + 1,
                              Memcpy(data, dst, addr, copy_bytes))

\* MemoryXz::Read with a slip: no test of addr against size_.
MemoryXz_Read_NoEndTest(mem, addr, size) ==
    MemoryXz_ReadFrom(mem, addr, size, ShiftRight(addr, mem.block_size_log2), <<>>)

\* MemoryXz::Read
MemoryXz_Read(mem, addr, size) ==
    IF addr >= mem.size THEN NoBytes(mem)
    ELSE MemoryXz_ReadFrom(mem, addr, size, ShiftRight(addr, mem.block_size_log2), <<>>)

\* Memory::Read, dispatched on the class of the object.
Read(mem, addr, size) ==
    CASE mem.kind = "buffer" -> MemoryBuffer_Read(mem, addr, size)
      [] mem.kind = "file" -> MemoryFileAtOffset_Read(mem, addr, size)
      [] mem.kind = "local" -> MemoryLocal_Read(mem, addr, size)
      [] mem.kind = "remote" -> MemoryRemote_Read(mem, addr, size)
      [] mem.kind = "range" -> MemoryRange_Read(mem, addr, size)
      [] mem.kind = "ranges" -> MemoryRanges_Read(mem, addr, size)
      [] mem.kind = "offline" -> MemoryOffline_Read(mem, addr, size)
      [] mem.kind = "offline_buffer" -> MemoryOfflineBuffer_Read(mem, addr, size)
      [] mem.kind = "offline_parts" -> MemoryOfflineParts_Read(mem, addr, size)
      [] mem.kind = "cache" -> MemoryCache_Read(mem, addr, size)
      [] mem.kind = "xz" -> MemoryXz_Read(mem, addr, size)

\* Memory::ReadFully
ReadFully(mem, addr, size) == Read(mem, addr, size).n = size

(***************************************************************************)
(* The Memory objects that are read, and the reads made of them.           *)
(***************************************************************************)
\* Targets of process reads.  The last page of the address space is never
\* readable: it is not part of a user address space.
AllReadable == 1 .. 70

Holed == AllReadable \ {3}

Targets == {AllReadable, Holed, {}}

ProcessMemories ==
    {MemoryLocal(readable) : readable \in Targets}
    \cup {MemoryRemote(Target(Holed, vm, ptrace)) : vm \in BOOLEAN, ptrace \in BOOLEAN}

\* CreateProcessMemoryCached(pid)
CachedMemories ==
    {MemoryCache(impl) :
        impl \in {MemoryLocal(AllReadable), MemoryLocal(Holed),
                  MemoryRemote(Target(Holed, TRUE, TRUE)),
                  MemoryRemote(Target(Holed, FALSE, TRUE))}}

FileMemories ==
    {MemoryFileAtOffset_Init(SplitLibrary, "libc.so", 4096, 100),
     MemoryFileAtOffset_Init(SplitLibrary, "libc.so", 0, UINT64_MAX)}

Shifted == MemoryRange(MemoryBuffer(4000), 1000, 100, 0)

Adjacent == MemoryRange(MemoryBuffer(4000), 2000, 100, 100)

Inner == MemoryRange(MemoryBuffer(4000), 3000, 20, 150)

AtTop == MemoryRange(MemoryBuffer(4000), 1000, 200, UINT64_MAX - 100)

EndsAtTop == MemoryRange(MemoryBuffer(4000), 2000, 50, UINT64_MAX - 50)

FromTop == MemoryRange(MemoryBuffer(4000), UINT64_MAX - 50, 100, 100)

OfProcess == MemoryRange(MemoryLocal(Holed), 4096, 12288, 0)

RangeMemories == {Shifted, Adjacent, Inner, AtTop, EndsAtTop, FromTop, OfProcess,
                  MemoryRange(MemoryBuffer(4000), 0, 0, 100)}

RECURSIVE InsertAll(_, _, _)
\* ranges after Insert of each of memories[i..]
InsertAll(ranges, memories, i) ==
    IF i > Len(memories) THEN ranges
    ELSE InsertAll(MemoryRanges_Insert(ranges, memories[i]), memories, i + 1)

RangesMemories ==
    {InsertAll(EmptyRanges, memories, 1) :
        memories \in {<<>>, <<Shifted>>, <<Shifted, Adjacent>>, <<Adjacent, Shifted>>,
                      <<Adjacent, AtTop>>, <<AtTop, EndsAtTop>>, <<EndsAtTop, AtTop>>,
                      <<Shifted, Adjacent, Inner>>, <<Inner, FromTop, Adjacent>>}}

OfflineMemories ==
    {MemoryOffline} \cup
    {MemoryOffline_Init(MemoryOffline, memory_file, start) :
        memory_file \in FileMemories \cup {NullMem}, start \in {0, 100, UINT64_MAX - 50}}

OfflineBufferMemories ==
    {MemoryOfflineBuffer(0, 0), MemoryOfflineBuffer(100, 200),
     MemoryOfflineBuffer(UINT64_MAX - 100, UINT64_MAX)}

OfflinePartsMemories ==
    {MemoryOfflineParts(memories) :
        memories \in {<<>>,
                      <<MemoryOffline_Init(MemoryOffline, MemoryFileAtOffset_Init(SplitLibrary, "libc.so", 4096, 100), 0),
                        MemoryOffline_Init(MemoryOffline, MemoryFileAtOffset_Init(SplitLibrary, "libc.so", 0, UINT64_MAX), 50)>>,
                      <<MemoryOffline,
                        MemoryOffline_Init(MemoryOffline, MemoryFileAtOffset_Init(SplitLibrary, "libc.so", 4096, 100), 100)>>}}

XzMemories ==
    {MemoryXz_Init(sizes, unsound) :
        sizes \in {<<16, 16, 5>>, <<16, 16, 16>>, <<12, 12, 5>>, <<20>>, <<8, 16>>},
        unsound \in {{}, {1}, {2}}} \ {NullMem}

Memories ==
    {MemoryBuffer(0), MemoryBuffer(100)} \cup FileMemories \cup ProcessMemories
    \cup RangeMemories \cup RangesMemories \cup OfflineMemories
    \cup OfflineBufferMemories \cup OfflinePartsMemories \cup CachedMemories
    \cup XzMemories

\* The addresses and sizes read of a process memory: around page boundaries,
\* the hole, the end of the readable pages and the top of the address space,
\* and sizes up to more than kMaxIovecs pages.
ProcessAddrs ==
    {0, PageSize - 1, PageSize, PageSize + 5, 2 * PageSize - 6, 3 * PageSize - 6,
     3 * PageSize, 4 * PageSize - 3, 71 * PageSize - 6, UINT64_MAX - PageSize - 6,
     UINT64_MAX - 3, UINT64_MAX}

SmallSizes == {0, 1, 10, kCacheMaxRead}

ProcessSizes == SmallSizes \cup {kCacheMaxRead + 1, PageSize + 3}

\* Reads of about kMaxIovecs pages, from before the hole and from after it.
BatchAddrs == {PageSize, PageSize + 5, 4 * PageSize}

BatchSizes == {kMaxIovecs * PageSize, kMaxIovecs * PageSize + 1,
               (kMaxIovecs + 1) * PageSize}

\* Reads of a cached process memory: across each kind of page boundary.
CacheAddrs ==
    {PageSize - 3, PageSize + 5, 2 * PageSize - 6, 3 * PageSize - 6,
     4 * PageSize - 3, 71 * PageSize - 6, UINT64_MAX - PageSize - 6, UINT64_MAX - 3}

CacheSizes == SmallSizes \cup {kCacheMaxRead + 1}

\* The addresses and sizes read of the other objects: around the ends of
\* their buffers, ranges and blocks, and the top of the address space.
BufferAddrs == {0, 50, 99, 100, 101, 12287, 12288, UINT64_MAX}

RangeAddrs ==
    {0, 50, 99, 100, 101, 150, 169, 170, 199, 200, UINT64_MAX - 100,
     UINT64_MAX - 50, UINT64_MAX - 10, UINT64_MAX}

XzAddrs == {0, 8, 15, 16, 17, 20, 29, 31, 32, 36, 37, 48}

Sizes == SmallSizes \cup {16, 100, 200, UINT64_MAX}

(***************************************************************************)
(* object.Read(addr, dst, size); an action for each class.                 *)
(***************************************************************************)
DoRead(addr, size) ==
    LET r == Read(object, addr, size)
    IN /\ object' = r.mem
       /\ last' = [kind |-> object.kind, addr |-> addr, size |-> size, n |-> r.n,
                   data |-> r.data, reads |-> r.reads, before |-> object]
       /\ UNCHANGED <<env, mapVars, pc, loc, calls, histVars, libVars>>

MemoryBufferRead ==
    object.kind = "buffer" /\ \E addr \in BufferAddrs, size \in Sizes : DoRead(addr, size)

MemoryFileAtOffsetRead ==
    object.kind = "file" /\ \E addr \in BufferAddrs, size \in Sizes : DoRead(addr, size)

MemoryLocalRead ==
    /\ object.kind = "local"
    /\ \E rd \in (ProcessAddrs \X ProcessSizes) \cup (BatchAddrs \X BatchSizes) :
          DoRead(rd[1], rd[2])

MemoryRemoteRead ==
    /\ object.kind = "remote"
    /\ \E addr \in ProcessAddrs, size \in ProcessSizes : DoRead(addr, size)

MemoryRangeRead ==
    object.kind = "range" /\ \E addr \in RangeAddrs, size \in Sizes : DoRead(addr, size)

MemoryRangesRead ==
    object.kind = "ranges" /\ \E addr \in RangeAddrs, size \in Sizes : DoRead(addr, size)

MemoryOfflineRead ==
    object.kind = "offline" /\ \E addr \in RangeAddrs, size \in Sizes : DoRead(addr, size)

MemoryOfflineBufferRead ==
    object.kind = "offline_buffer" /\ \E addr \in RangeAddrs, size \in Sizes : DoRead(addr, size)

MemoryOfflinePartsRead ==
    object.kind = "offline_parts" /\ \E addr \in RangeAddrs, size \in Sizes : DoRead(addr, size)

MemoryCacheRead ==
    /\ object.kind = "cache"
    /\ \E addr \in CacheAddrs, size \in CacheSizes : DoRead(addr, size)

MemoryXzRead ==
    object.kind = "xz" /\ \E addr \in XzAddrs, size \in Sizes : DoRead(addr, size)

InitMemory ==
    /\ env = SplitLibrary
    /\ elf = [m \in MapIds |-> Null]
    /\ elf_offset = [m \in MapIds |-> 0]
    /\ elf_start_offset = [m \in MapIds |-> 0]
    /\ memory_backed_elf = [m \in MapIds |-> FALSE]
    /\ load_bias = [m \in MapIds |-> INT64_MAX]
    /\ build_id = [m \in MapIds |-> Null]
    /\ mutex = [m \in MapIds |-> Null]
    /\ elfs = [id \in ElfIds |-> NoElf]
    /\ pc = [t \in Threads |-> "idle"]
    /\ loc = [t \in Threads |-> Idle]
    /\ calls = 0
    /\ obsElf = [m \in MapIds |-> {}]
    /\ retBias = [m \in MapIds |-> {}]
    /\ retBuildId = [m \in MapIds |-> {}]
    /\ object \in Memories
    /\ last = [kind |-> "none"]
    /\ IdleLib

NextMemory ==
    \/ MemoryBufferRead
    \/ MemoryFileAtOffsetRead
    \/ MemoryLocalRead
    \/ MemoryRemoteRead
    \/ MemoryRangeRead
    \/ MemoryRangesRead
    \/ MemoryOfflineRead
    \/ MemoryOfflineBufferRead
    \/ MemoryOfflinePartsRead
    \/ MemoryCacheRead
    \/ MemoryXzRead

SpecMemory == InitMemory /\ [][NextMemory]_vars

\* C6: every Read of every class returns a count between 0 and size, and
\* every byte it stores lies in dst[0, size).
C6_ReadWithinBounds ==
    last.kind # "none" =>
        /\ 0 <= last.n /\ last.n <= last.size
        /\ \A i \in DOMAIN last.data :
              /\ last.data[i].len > 0
              /\ 0 <= last.data[i].dst
              /\ last.data[i].dst + last.data[i].len <= last.size

\* C6 witness: a read whose addr + size overflows the address space and
\* that returned bytes.
C6_Witness ==
    /\ last.kind \in {"range", "ranges", "offline_buffer"}
    /\ last.addr + last.size > UINT64_MAX
    /\ last.n > 0

\* C7: a read of the local process that returns less than size has stored
\* exactly the bytes at addr .. addr + n in dst[0, n), and the byte at
\* addr + n is not readable; for every size, also above kMaxIovecs pages.
C7_ShortReadIsPrefix ==
    last.kind = "local" /\ last.n < last.size =>
        /\ last.data = Memcpy(<<>>, 0, last.addr, last.n)
        /\ PageOf(last.addr + last.n) \notin last.before.target.readable

\* C8: a cached read of at most 64 bytes, made after any cached reads,
\* returns the count and stores the bytes that the same read of the
\* underlying process memory returns and stores.
C8_CachedReadEqualsUncached ==
    last.kind = "cache" /\ last.size <= kCacheMaxRead =>
        LET uncached == Read(last.before.impl, last.addr, last.size)
        IN last.n = uncached.n /\ last.data = uncached.data

\* C8 witness: a read served from two pages that were in the cache.
C8_Witness ==
    /\ last.kind = "cache"
    /\ last.size <= kCacheMaxRead
    /\ last.reads = <<>>
    /\ last.n = last.size
    /\ PageOf(last.addr) # PageOf(last.addr + last.size - 1)

\* C9: a read of a MemoryRanges is served by the one range whose exclusive
\* end is the least above addr: it returns no more than the bytes of that
\* range from addr on and stores bytes of that range only; it returns 0 when
\* no end is above addr and when no range covers addr.
C9_NoReadAcrossRanges ==
    last.kind = "ranges" =>
        LET maps == last.before.maps
            above == {k \in DOMAIN maps : k > last.addr}
            covering == {k \in DOMAIN maps :
                            /\ maps[k].offset <= last.addr
                            /\ last.addr < maps[k].offset + maps[k].length}
        IN /\ above = {} => last.n = 0
           /\ covering = {} => last.n = 0
           /\ last.n > 0 =>
                \E k \in above :
                    /\ \A j \in above : k <= j
                    /\ maps[k].offset <= last.addr
                    /\ last.addr + last.n <= maps[k].offset + maps[k].length
                    /\ last.data = Memcpy(<<>>, 0, maps[k].begin + (last.addr - maps[k].offset),
                                          last.n)

\* C9 witness: a read that ended short at the end of its range, where the
\* next range starts.
C9_Witness ==
    /\ last.kind = "ranges"
    /\ 0 < last.n /\ last.n < last.size
    /\ \E k \in DOMAIN last.before.maps : last.before.maps[k].offset = last.addr + last.n

\* C10: a MemoryRange returns 0 and reads nothing for an addr outside
\* [offset, offset + length) and when begin + (addr - offset) overflows;
\* otherwise it reads the underlying memory once, at begin + (addr - offset)
\* for min(size, offset + length - addr) bytes, and returns what that read
\* returns.
C10_RangeRead ==
    last.kind = "range" =>
        LET r == last.before
            inside == r.offset <= last.addr /\ last.addr < r.offset + r.length
            origin == r.begin + (last.addr - r.offset)
            length == Min(last.size, r.offset + r.length - last.addr)
            under == Read(r.memory, origin, length)
        IN IF ~inside \/ origin > UINT64_MAX
           THEN last.n = 0 /\ last.data = <<>> /\ last.reads = <<>>
           ELSE /\ last.reads = <<Passed(origin, length)>>
                /\ last.n = under.n
                /\ last.data = under.data

\* C10 witness: a read inside the range that the end of the range cut short.
C10_Witness ==
    /\ last.kind = "range"
    /\ 0 < last.n /\ last.n < last.size
    /\ last.addr + last.n = last.before.offset + last.before.length

(***************************************************************************)
(* MemoryXz as a stream: the decompressed blocks one after the other.      *)
(***************************************************************************)
RECURSIVE BlockStart(_, _)
\* The position in the decompressed stream at which blocks[i] starts.
BlockStart(blocks, i) ==
    IF i = 1 THEN 0 ELSE BlockStart(blocks, i - 1) + blocks[i - 1].decompressed_size

\* The bytes of the stream a read of size bytes at addr asks for.
XzAsked(xz, addr, size) == IF addr >= xz.size THEN 0 ELSE Min(size, xz.size - addr)

\* The blocks a read at addr needs that cannot be decompressed: the block
\* addr lies in, and those holding the rest of the bytes asked for.
XzFailing(xz, addr, size) ==
    {i \in DOMAIN xz.blocks :
        /\ BlockStart(xz.blocks, i) <= addr + Max(XzAsked(xz, addr, size), 1) - 1
        /\ addr < BlockStart(xz.blocks, i) + xz.blocks[i].decompressed_size
        /\ ~xz.blocks[i].decompressed
        /\ ~xz.blocks[i].sound}

\* C11 as stated: a read of an XZ memory returns 0 at or past the
\* decompressed size, and inside it the bytes of the decompressed stream
\* from addr on, cut at the total size.
C11_XzReadReturnsStream ==
    last.kind = "xz" =>
        /\ last.n = XzAsked(last.before, last.addr, last.size)
        /\ last.data = Memcpy(<<>>, 0, last.addr, last.n)

\* C11 amended: a read of an XZ memory returns 0 at or past the decompressed
\* size; inside it, it stores the bytes of the decompressed stream from addr
\* on, cut at the total size and at the first block needed that fails to
\* decompress.
C11_XzReadReturnsDecodedStream ==
    last.kind = "xz" =>
        LET xz == last.before
            failing == XzFailing(xz, last.addr, last.size)
            first == CHOOSE i \in failing : \A j \in failing : i <= j
        IN /\ last.addr >= xz.size => last.n = 0
           /\ failing = {} => last.n = XzAsked(xz, last.addr, last.size)
           /\ failing # {} /\ last.addr < xz.size =>
                 last.n = Max(0, BlockStart(xz.blocks, first) - last.addr)
           /\ last.data = Memcpy(<<>>, 0, last.addr, last.n)

\* C11 witness: a read that started in one block, went on into the next
\* ones and was cut at the total size.
C11_Witness ==
    /\ last.kind = "xz"
    /\ Len(last.before.blocks) > 1
    /\ last.addr < last.before.blocks[1].decompressed_size
    /\ last.n < last.size
    /\ last.addr + last.n = last.before.size


(***************************************************************************)
(* MemoryRemote::Read called by several threads on one object.  The load   *)
(* of read_redirect_func_, each call of a read function and each store to  *)
(* read_redirect_func_ is a step of its own; the atomic is loaded and      *)
(* stored, never compared and exchanged.                                   *)
(***************************************************************************)
RemoteTargets == {ExecuteOnlyTarget({1}, {2}), ExecuteOnlyTarget({1, 2}, {}),
                  Target({1, 2}, FALSE, TRUE)}

RemoteAddrs == {PageSize, 2 * PageSize, 3 * PageSize}

\* The read function `method` called as read_func(pid_, addr, dst, size).
CallReadFunc(method, target, addr, size) ==
    IF method = "ProcessVmRead" THEN ProcessVmRead(target, addr, size)
    ELSE PtraceRead(target, addr, size)

\* The log once the call of thread t has used `method`.
Used(t, method) ==
    [remoteLog EXCEPT !.late = IF loc[t].late THEN @ \cup {method} ELSE @]

\* The log once a call that used `method` has returned n.
Returned(log, method, n) ==
    [log EXCEPT !.first = IF @ = Null /\ n > 0 THEN method ELSE @]

RemoteReturn(t) ==
    /\ pc' = [pc EXCEPT ![t] = "idle"]
    /\ loc' = [loc EXCEPT ![t] = Idle]

CallRemoteRead(t) ==
    /\ pc[t] = "idle"
    /\ calls < MaxCalls
    /\ object.kind = "remote"
    /\ calls' = calls + 1
    /\ \E addr \in RemoteAddrs :
          loc' = [loc EXCEPT ![t] = [op |-> "MemoryRemote::Read", addr |-> addr,
                                     size |-> SizeofLong, read_func |-> Null,
                                     late |-> remoteLog.first # Null]]
    /\ pc' = [pc EXCEPT ![t] = "Remote_load"]
    /\ UNCHANGED <<env, mapVars, histVars, memVars, libVars>>

\* read_func = read_redirect_func_.load()
Remote_Load(t) ==
    /\ pc[t] = "Remote_load"
    /\ loc' = [loc EXCEPT ![t].read_func = object.read_redirect_func]
    /\ pc' = [pc EXCEPT ![t] = IF object.read_redirect_func # Null
                               THEN "Remote_redirect" ELSE "Remote_vm"]
    /\ UNCHANGED <<env, mapVars, calls, histVars, memVars, libVars>>

\* return read_func(pid_, addr, dst, size)
Remote_Redirect(t) ==
    /\ pc[t] = "Remote_redirect"
    /\ LET r == CallReadFunc(loc[t].read_func, object.target, loc[t].addr, loc[t].size)
       IN remoteLog' = Returned(Used(t, loc[t].read_func), loc[t].read_func, r.n)
    /\ RemoteReturn(t)
    /\ UNCHANGED <<env, mapVars, calls, histVars, memVars, otherThanRemote>>

\* bytes = ProcessVmRead(pid_, addr, dst, size)
Remote_ProcessVmRead(t) ==
    /\ pc[t] = "Remote_vm"
    /\ LET r == ProcessVmRead(object.target, loc[t].addr, loc[t].size)
       IN pc' = [pc EXCEPT ![t] = IF r.n > 0 THEN "Remote_store_vm" ELSE "Remote_ptrace"]
    /\ remoteLog' = Used(t, "ProcessVmRead")
    /\ UNCHANGED <<env, mapVars, loc, calls, histVars, memVars, otherThanRemote>>

\* read_redirect_func_ = ProcessVmRead; return bytes
Remote_StoreVm(t) ==
    /\ pc[t] = "Remote_store_vm"
    /\ object' = [object EXCEPT !.read_redirect_func = "ProcessVmRead"]
    /\ remoteLog' = Returned(remoteLog, "ProcessVmRead", 1)
    /\ RemoteReturn(t)
    /\ UNCHANGED <<env, mapVars, calls, histVars, last, otherThanRemote>>

\* bytes = PtraceRead(pid_, addr, dst, size); the store if bytes > 0; return
Remote_PtraceRead(t) ==
    /\ pc[t] = "Remote_ptrace"
    /\ LET r == PtraceRead(object.target, loc[t].addr, loc[t].size)
       IN /\ object' = IF r.n > 0 THEN [object EXCEPT !.read_redirect_func = "PtraceRead"]
                       ELSE object
          /\ remoteLog' = Returned(Used(t, "PtraceRead"), "PtraceRead", r.n)
    /\ RemoteReturn(t)
    /\ UNCHANGED <<env, mapVars, calls, histVars, last, otherThanRemote>>

InitRemote ==
    /\ env = SplitLibrary
    /\ elf = [m \in MapIds |-> Null]
    /\ elf_offset = [m \in MapIds |-> 0]
    /\ elf_start_offset = [m \in MapIds |-> 0]
    /\ memory_backed_elf = [m \in MapIds |-> FALSE]
    /\ load_bias = [m \in MapIds |-> INT64_MAX]
    /\ build_id = [m \in MapIds |-> Null]
    /\ mutex = [m \in MapIds |-> Null]
    /\ elfs = [id \in ElfIds |-> NoElf]
    /\ pc = [t \in Threads |-> "idle"]
    /\ loc = [t \in Threads |-> Idle]
    /\ calls = 0
    /\ obsElf = [m \in MapIds |-> {}]
    /\ retBias = [m \in MapIds |-> {}]
    /\ retBuildId = [m \in MapIds |-> {}]
    /\ object \in {MemoryRemote(target) : target \in RemoteTargets}
    /\ last = [kind |-> "none"]
    /\ IdleLib

NextRemote ==
    \E t \in Threads :
        \/ CallRemoteRead(t)
        \/ Remote_Load(t)
        \/ Remote_Redirect(t)
        \/ Remote_ProcessVmRead(t)
        \/ Remote_StoreVm(t)
        \/ Remote_PtraceRead(t)

SpecRemote == InitRemote /\ [][NextRemote]_vars

\* C12: once a read of a MemoryRemote has returned a non-zero count, the
\* method that read it is the one stored in read_redirect_func_, and every
\* read that starts later uses that method only, for every interleaving of
\* the threads' reads.
C12_RemoteMethodSticky ==
    remoteLog.first # Null =>
        /\ object.read_redirect_func = remoteLog.first
        /\ remoteLog.late \subseteq {remoteLog.first}


(***************************************************************************)
(* A MemoryFileAtOffset and a MemoryOffline over their lifetime: Init can  *)
(* be called again on an object, and can fail.                             *)
(***************************************************************************)
\* (void*)-1, what mmap returns when it fails
MAP_FAILED == -1

\* The page-aligned addresses mmap(nullptr, ...) may return.
MmapAddrs == {16 * PageSize, 48 * PageSize}

\* Init not called yet
NotAsked == [called |-> FALSE, name |-> "", offset |-> 0, size |-> 0]

\* A MemoryFileAtOffset as constructed: no mapping, size_ and offset_ 0.
\* mappings are the mappings of the process made by the object and not
\* unmapped, stray the munmap calls that were not for exactly one of them,
\* asked the arguments of the most recent Init.
MemoryFileAtOffset ==
    [kind |-> "file_object", data_ |-> NullMem, size_ |-> 0, offset_ |-> 0,
     mappings |-> {}, stray |-> {}, asked |-> NotAsked, destroyed |-> FALSE]

\* mmap(nullptr, length, PROT_READ, MAP_PRIVATE, fd, offset) returning map
Mmap(mem, map, length, name, offset) ==
    [mem EXCEPT !.mappings = @ \cup {[addr |-> map, length |-> length, name |-> name,
                                       offset |-> offset]}]

\* munmap(addr, length)
Munmap(mem, addr, length) ==
    IF \E mp \in mem.mappings : mp.addr = addr /\ mp.length = length
    THEN [mem EXCEPT !.mappings = {mp \in @ : mp.addr # addr}]
    ELSE [mem EXCEPT !.stray = @ \cup {[addr |-> addr, length |-> length]}]

\* The arguments of munmap with a slip: the intra-page slack is left out.
UnmapArgs_NoSlack(mem) == [addr |-> mem.data_.addr, length |-> mem.size_]

\* &data_[-offset_], size_ + offset_
UnmapArgs(mem) ==
    [addr |-> mem.data_.addr - mem.offset_, length |-> mem.size_ + mem.offset_]

\* MemoryFileAtOffset::Clear: size_ and offset_ keep their values.
MemoryFileAtOffset_Clear(mem) ==
    IF mem.data_ = NullMem THEN mem
    ELSE [Munmap(mem, UnmapArgs(mem).addr, UnmapArgs(mem).length) EXCEPT !.data_ = NullMem]

\* data_ with a slip: the start of the mapping.
DataPointer_PageStart(map, offset_) == [kind |-> "pointer", addr |-> map]

\* &reinterpret_cast<uint8_t*>(map)[offset_]
DataPointer(map, offset_) == [kind |-> "pointer", addr |-> map + offset_]

\* The offset in its file of the byte that the address ptr of the process
\* shows, -1 where nothing is mapped.
FileByteAt(mem, ptr) ==
    LET over == {mp \in mem.mappings : mp.addr <= ptr /\ ptr < mp.addr + mp.length}
    IN IF over = {} THEN -1
       ELSE LET mp == CHOOSE m \in over : TRUE IN mp.offset + (ptr - mp.addr)

\* MemoryFileAtOffset::Init(file, offset, size) on the object mem: the object
\* afterwards and the value returned.  map is what mmap returns for a length
\* that is not 0; mmap of no byte fails.
MemoryFileAtOffset_InitOn(mem, e, name, offset, size, map) ==
    LET cleared == [MemoryFileAtOffset_Clear(mem) EXCEPT
                       !.asked = [called |-> TRUE, name |-> name, offset |-> offset,
                                  size |-> size]]
        f == IF name = "" THEN NoFile ELSE e.file
        offset_ == offset % PageSize
        aligned_offset == offset - offset_
        mapped == f.size - aligned_offset
        size_ == IF ~Add64Overflows(size, offset_) /\ size + offset_ < mapped
                 THEN size + offset_ ELSE mapped
    IN IF ~f.exists THEN [ok |-> FALSE, mem |-> cleared]
       ELSE IF offset >= f.size THEN [ok |-> FALSE, mem |-> cleared]
       ELSE IF aligned_offset > f.size \/ offset > f.size
       THEN [ok |-> FALSE, mem |-> [cleared EXCEPT !.offset_ = offset_]]
       ELSE IF map = MAP_FAILED \/ size_ = 0
       THEN [ok |-> FALSE, mem |-> [cleared EXCEPT !.offset_ = offset_, !.size_ = size_]]
       ELSE [ok |-> TRUE,
             mem |-> [Mmap(cleared, map, size_, name, aligned_offset) EXCEPT
                         !.offset_ = offset_, !.size_ = size_ - offset_,
                         !.data_ = DataPointer(map, offset_)]]

\* MemoryFileAtOffset::Read on the object mem: the count, the bytes copied,
\* whether the memcpy read through a null data_, and the file offset of the
\* first and of the last byte copied.
MemoryFileAtOffset_ReadOn(mem, addr, size) ==
    IF addr >= mem.size_
    THEN [n |-> 0, data |-> <<>>, null_deref |-> FALSE, first |-> -1, final |-> -1]
    ELSE LET bytes_left == mem.size_ - addr
             actual_len == Min(bytes_left, size)
             copied == mem.data_ # NullMem /\ actual_len > 0
         IN [n |-> actual_len, data |-> Memcpy(<<>>, 0, addr, actual_len),
             null_deref |-> mem.data_ = NullMem,
             first |-> IF copied THEN FileByteAt(mem, mem.data_.addr + addr) ELSE -1,
             final |-> IF copied
                       THEN FileByteAt(mem, mem.data_.addr + addr + actual_len - 1)
                       ELSE -1]

\* MemoryFileAtOffset::~MemoryFileAtOffset
MemoryFileAtOffset_Destroy(mem) == [MemoryFileAtOffset_Clear(mem) EXCEPT !.destroyed = TRUE]

\* Whether MemoryOffline::Init returns true.
MemoryOffline_InitReturns(memory_file, start) ==
    MemoryOffline_Init(MemoryOffline, memory_file, start).memory # NullMem

InitNames == {"libc.so", ""}

InitOffsets == {0, 100, PageSize, 3 * PageSize - 4, 3 * PageSize}

InitSizes == {0, 100, 2 * PageSize, UINT64_MAX}

InitReadAddrs == {0, 50, 100, 3 * PageSize}

InitReadSizes == {0, 10, 200}

FileInit ==
    /\ object.kind = "file_object"
    /\ ~object.destroyed
    /\ \E name \in InitNames, offset \in InitOffsets, size \in InitSizes,
          map \in MmapAddrs \cup {MAP_FAILED} :
          LET r == MemoryFileAtOffset_InitOn(object, env, name, offset, size, map)
          IN /\ object' = r.mem
             /\ initOk' = r.ok
    /\ last' = [kind |-> "none"]
    /\ UNCHANGED <<env, mapVars, pc, loc, calls, histVars, otherThanInit>>

\* last is the result of the most recent call if that was a read.  A read
\* through a null data_ is undefined: the call is killed by the fault
\* or returns what memcpy found.
FileRead ==
    /\ object.kind = "file_object"
    /\ ~object.destroyed
    /\ \E addr \in InitReadAddrs, size \in InitReadSizes, killed \in BOOLEAN :
          LET r == MemoryFileAtOffset_ReadOn(object, addr, size)
          IN /\ killed => r.null_deref
             /\ last' = [kind |-> object.kind, addr |-> addr, size |-> size,
                         n |-> IF killed THEN 0 ELSE r.n, data |-> r.data,
                         null_deref |-> r.null_deref, init_ok |-> initOk,
                         first |-> r.first, final |-> r.final, mem |-> object]
    /\ UNCHANGED <<env, mapVars, pc, loc, calls, histVars, object, initOk, otherThanInit>>

\* Clear() called on the object from outside.
FileClear ==
    /\ object.kind = "file_object"
    /\ ~object.destroyed
    /\ object' = MemoryFileAtOffset_Clear(object)
    /\ last' = [kind |-> "none"]
    /\ UNCHANGED <<env, mapVars, pc, loc, calls, histVars, libVars>>

\* The object is destroyed; nothing is called on it afterwards.
FileDestroy ==
    /\ object.kind = "file_object"
    /\ ~object.destroyed
    /\ object' = MemoryFileAtOffset_Destroy(object)
    /\ last' = [kind |-> "none"]
    /\ UNCHANGED <<env, mapVars, pc, loc, calls, histVars, libVars>>

OfflineInit ==
    /\ object.kind = "offline"
    /\ \E name \in InitNames, offset \in InitOffsets, map \in MmapAddrs \cup {MAP_FAILED},
          start \in {0, 100} :
          LET made == MemoryFileAtOffset_InitOn(MemoryFileAtOffset, env, name, offset,
                                                UINT64_MAX, map)
              memory_file == IF made.ok
                             THEN MemoryFileAtOffset_Init(env, name, offset, UINT64_MAX)
                             ELSE NullMem
          IN /\ object' = MemoryOffline_Init(object, memory_file, start)
             /\ initOk' = MemoryOffline_InitReturns(memory_file, start)
    /\ UNCHANGED <<env, mapVars, pc, loc, calls, histVars, last, otherThanInit>>

OfflineRead ==
    /\ object.kind = "offline"
    /\ \E addr \in InitReadAddrs, size \in InitReadSizes :
          LET r == Read(object, addr, size)
          IN last' = [kind |-> object.kind, addr |-> addr, size |-> size, n |-> r.n,
                      data |-> r.data, null_deref |-> FALSE, init_ok |-> initOk]
    /\ UNCHANGED <<env, mapVars, pc, loc, calls, histVars, object, initOk, otherThanInit>>

InitObjects ==
    /\ env = SplitLibrary
    /\ elf = [m \in MapIds |-> Null]
    /\ elf_offset = [m \in MapIds |-> 0]
    /\ elf_start_offset = [m \in MapIds |-> 0]
    /\ memory_backed_elf = [m \in MapIds |-> FALSE]
    /\ load_bias = [m \in MapIds |-> INT64_MAX]
    /\ build_id = [m \in MapIds |-> Null]
    /\ mutex = [m \in MapIds |-> Null]
    /\ elfs = [id \in ElfIds |-> NoElf]
    /\ pc = [t \in Threads |-> "idle"]
    /\ loc = [t \in Threads |-> Idle]
    /\ calls = 0
    /\ obsElf = [m \in MapIds |-> {}]
    /\ retBias = [m \in MapIds |-> {}]
    /\ retBuildId = [m \in MapIds |-> {}]
    /\ object \in {MemoryFileAtOffset, MemoryOffline}
    /\ last = [kind |-> "none"]
    /\ IdleLib

NextObjects ==
    \/ FileInit
    \/ FileRead
    \/ FileClear
    \/ FileDestroy
    \/ OfflineInit
    \/ OfflineRead

SpecObjects == InitObjects /\ [][NextObjects]_vars

\* C13: a read of a MemoryFileAtOffset or a MemoryOffline that was never
\* initialised, or whose most recent Init returned false, returns 0 and reads
\* through no mapping.
C13_ReadAfterFailedInit ==
    (last.kind # "none" /\ ~last.init_ok) => (last.n = 0 /\ ~last.null_deref)


(***************************************************************************)
(* The JIT/DEX catalog: GlobalDebugImpl (GlobalDebugImpl.h) and the        *)
(* JitDebugImpl of JitDebug.cpp.                                           *)
(*                                                                         *)
(* The target holds a descriptor and a list of entries; an entry is named  *)
(* by its position in `list` (0 is the null pointer) and its next field    *)
(* points at the following one.  symfiles gives, for each symfile_addr at  *)
(* which a symbol file can be built, the pcs it covers and the pcs it has  *)
(* a function name for.                                                    *)
(***************************************************************************)
JITCodeEntry(readable, symfile_addr) ==
    [readable |-> readable, symfile_addr |-> symfile_addr]

\* A target whose entries point at one another as next says (next[i] is the
\* next field of list[i], 0 the null pointer).
JitTargetLinked(resolved, readable, version, first_entry, list, next, symfiles) ==
    [resolved |-> resolved, readable |-> readable, version |-> version,
     first_entry |-> first_entry, list |-> list, next |-> next, symfiles |-> symfiles]

\* A target whose list is in the order of `list` and ends with the null
\* pointer.
JitTarget(resolved, readable, version, first_entry, list, symfiles) ==
    JitTargetLinked(resolved, readable, version, first_entry, list,
                    [i \in DOMAIN list |-> IF i < Len(list) THEN i + 1 ELSE 0], symfiles)

\* Symbol files at 100 and 300, both covering pc 11.
TwoSymfiles ==
    [a \in {100, 300} |-> IF a = 100 THEN [pcs |-> {10, 11}, named |-> {10}]
                          ELSE [pcs |-> {11, 12}, named |-> {11, 12}]]

JitTargets ==
    {JitTarget(TRUE, TRUE, 1, 1,
               <<JITCodeEntry(TRUE, 100), JITCodeEntry(TRUE, 200), JITCodeEntry(TRUE, 300)>>,
               TwoSymfiles),
     JitTarget(TRUE, TRUE, 1, 1,
               <<JITCodeEntry(TRUE, 100), JITCodeEntry(TRUE, 0), JITCodeEntry(TRUE, 300)>>,
               TwoSymfiles),
     JitTarget(TRUE, TRUE, 1, 1,
               <<JITCodeEntry(TRUE, 300), JITCodeEntry(FALSE, 0), JITCodeEntry(TRUE, 100)>>,
               TwoSymfiles),
     JitTarget(TRUE, TRUE, 2, 1, <<JITCodeEntry(TRUE, 100)>>, TwoSymfiles),
     JitTarget(TRUE, TRUE, 1, 0, <<JITCodeEntry(TRUE, 100)>>, TwoSymfiles),
     JitTarget(TRUE, FALSE, 1, 1, <<JITCodeEntry(TRUE, 100)>>, TwoSymfiles),
     JitTarget(FALSE, TRUE, 1, 1, <<JITCodeEntry(TRUE, 100)>>, TwoSymfiles)}

JitPcs == {10, 11, 12, 13}

\* The object after its constructor.
GlobalDebugImpl(impl, target) ==
    [impl |-> impl, target |-> target, initialized_ |-> FALSE, entry_addr_ |-> 0,
     entries_ |-> <<>>, lock_ |-> Null, made |-> 0]

\* ReadDescriptor(addr)
ReadDescriptor(target) ==
    IF ~target.readable THEN 0
    ELSE IF target.version # 1 \/ target.first_entry = 0 THEN 0
    ELSE target.first_entry

\* ReadVariableData(ptr)
ReadVariableData(c) == [c EXCEPT !.entry_addr_ = ReadDescriptor(c.target)]

\* Global::FindAndReadVariable: ReadVariableData is called when the variable
\* is found in the maps.
FindAndReadVariable(c) == IF c.target.resolved THEN ReadVariableData(c) ELSE c

\* Init without the initialized_ mark.
Init_NotMarked(c) == FindAndReadVariable(c)

\* Init(maps)
Init(c) ==
    IF c.initialized_ THEN c
    ELSE FindAndReadVariable([c EXCEPT !.initialized_ = TRUE])

\* Symfile::IsValidPc(pc)
IsValidPc(target, file, addr) == addr \in target.symfiles[file.start].pcs

\* Symfile::GetFunctionName(pc, name, offset)
HasFunctionName(target, file, addr) == addr \in target.symfiles[file.start].named

\* The callback of GetFunctionName without the IsValidPc test.
Callback_NameUnchecked(target, op, file, addr) ==
    [hit |-> HasFunctionName(target, file, addr),
     events |-> <<[call |-> "GetFunctionName", id |-> file.id]>>]

\* The callback Find and GetFunctionName hand to ForEachSymfile, called on
\* file: whether it returns true, and the calls it makes on the file.
Callback(target, op, file, addr) ==
    LET valid == IsValidPc(target, file, addr)
    IN IF op = "Find"
       THEN [hit |-> valid, events |-> <<[call |-> "IsValidPc", id |-> file.id]>>]
       ELSE [hit |-> valid /\ HasFunctionName(target, file, addr),
             events |-> IF valid
                        THEN <<[call |-> "IsValidPc", id |-> file.id],
                               [call |-> "GetFunctionName", id |-> file.id]>>
                        ELSE <<[call |-> "IsValidPc", id |-> file.id]>>]

RECURSIVE ScanFrom(_, _, _, _, _, _)
\* The loop over entries_ from entries_[i] on: the entry the callback returned
\* true for (0, the null pointer, if none) and the calls made.
ScanFrom(target, op, addr, entries, i, events) ==
    IF i > Len(entries) THEN [hit |-> 0, events |-> events]
    ELSE LET r == Callback(target, op, entries[i], addr)
         IN IF r.hit THEN [hit |-> entries[i].id, events |-> events \o r.events]
            ELSE ScanFrom(target, op, addr, entries, i + 1, events \o r.events)

\* code.next of the entry at entry_addr.
NextEntry(target, entry_addr) == target.next[entry_addr]

\* Values an uninitialised start can hold.
Uninitialised(target) == {0} \cup DOMAIN target.symfiles

\* this->Load(maps, memory_, start, size, entry): whether a symbol file is
\* built at start.
Load(target, start) == start \in DOMAIN target.symfiles

\* entries_.push_front(entry)
PushFront(entries, file) == <<file>> \o entries

\* entries_.push_back(entry)
PushBack(entries, file) == Append(entries, file)

\* entry_addr_ after an invalid Elf with a slip: the list is walked on.
EntryAfterInvalid_WalkOn(impl, next) == next

\* entry_addr_ after an entry of which no Elf or symbol file could be made:
\* JitDebugImpl::Find sets it to 0, ForEachSymfile of GlobalDebugImpl goes on
\* with the next entry.
EntryAfterInvalid(impl, next) == IF impl = "JitDebugImpl" THEN 0 ELSE next

\* No entry read in this turn of the loop yet.
NoEntry == [id |-> 0, start |-> 0, next |-> 0, read |-> FALSE]

CallCatalog(t, op) ==
    /\ pc[t] = "idle"
    /\ calls < MaxCalls
    /\ catalog.impl # "none"
    /\ op = "GetFunctionName" => catalog.impl = "GlobalDebugImpl"
    /\ calls' = calls + 1
    /\ \E addr \in JitPcs :
          loc' = [loc EXCEPT ![t] = [op |-> op, addr |-> addr, events |-> <<>>,
                                     result |-> 0, had |-> 0, entry |-> NoEntry]]
    /\ pc' = [pc EXCEPT ![t] = "Catalog_lock"]
    /\ UNCHANGED <<env, mapVars, histVars, memVars, libVars>>

\* Symfile* Find(Maps* maps, uint64_t pc)
CallFind(t) == CallCatalog(t, "Find")

\* bool GetFunctionName(Maps* maps, uint64_t pc, SharedString* name, uint64_t* offset)
CallCatalogGetFunctionName(t) == CallCatalog(t, "GetFunctionName")

\* The lock_guard with a slip: lock_ is taken whoever holds it.
Catalog_Lock_NoWait(t) ==
    /\ pc[t] = "Catalog_lock"
    /\ catalog' = [catalog EXCEPT !.lock_ = t]
    /\ pc' = [pc EXCEPT ![t] = "Catalog_init"]
    /\ UNCHANGED <<env, mapVars, loc, calls, histVars, memVars, catalogLog, otherThanCatalog>>

\* std::lock_guard<std::mutex> guard(lock_)
Catalog_Lock(t) ==
    /\ pc[t] = "Catalog_lock"
    /\ catalog.lock_ = Null
    /\ catalog' = [catalog EXCEPT !.lock_ = t]
    /\ pc' = [pc EXCEPT ![t] = "Catalog_init"]
    /\ UNCHANGED <<env, mapVars, loc, calls, histVars, memVars, catalogLog, otherThanCatalog>>

\* if (!initialized_) Init(maps)
Catalog_Init(t) ==
    /\ pc[t] = "Catalog_init"
    /\ IF catalog.initialized_
       THEN UNCHANGED <<catalog, catalogLog>>
       ELSE /\ catalog' = Init(catalog)
            /\ catalogLog' = [catalogLog EXCEPT !.resolves = @ + 1]
    /\ pc' = [pc EXCEPT ![t] = "Catalog_scan"]
    /\ UNCHANGED <<env, mapVars, loc, calls, histVars, memVars, otherThanCatalog>>

\* for (entry : entries_) if (callback(entry.get())) return true
Catalog_Scan(t) ==
    /\ pc[t] = "Catalog_scan"
    /\ LET r == ScanFrom(catalog.target, loc[t].op, loc[t].addr, catalog.entries_, 1, <<>>)
       IN /\ loc' = [loc EXCEPT ![t].events = r.events, ![t].result = r.hit,
                             ![t].had = Len(catalog.entries_)]
          /\ pc' = [pc EXCEPT ![t] = IF r.hit # 0 THEN "Catalog_unlock"
                                     ELSE "Catalog_walk"]
    /\ UNCHANGED <<env, mapVars, calls, histVars, memVars, libVars>>

\* entry_addr_ = ReadEntry(&start, &size) of one turn of while (entry_addr_ !=
\* 0): the entry at entry_addr_ is read from the target.  When ReadFully
\* fails ReadEntry returns 0 and leaves start and size uninitialised.
Catalog_Walk(t) ==
    /\ pc[t] = "Catalog_walk"
    /\ IF catalog.entry_addr_ = 0
       THEN /\ pc' = [pc EXCEPT ![t] = "Catalog_unlock"]
            /\ UNCHANGED <<loc, catalogLog>>
       ELSE LET target == catalog.target
                code == target.list[catalog.entry_addr_]
                next == IF code.readable THEN NextEntry(target, catalog.entry_addr_) ELSE 0
                read == [call |-> "ReadEntry", id |-> catalog.entry_addr_]
            IN /\ Len(catalogLog.read) < MaxReads
               /\ \E start \in IF code.readable THEN {code.symfile_addr}
                               ELSE Uninitialised(target) :
                     loc' = [loc EXCEPT ![t].events = Append(@, read),
                                        ![t].entry = [id |-> catalog.entry_addr_,
                                                      start |-> start, next |-> next,
                                                      read |-> code.readable]]
               /\ catalogLog' = [catalogLog EXCEPT !.read = Append(@, read.id)]
               /\ pc' = [pc EXCEPT ![t] = "Catalog_load"]
    /\ UNCHANGED <<env, mapVars, calls, histVars, memVars, catalog, otherThanCatalog>>

\* The rest of the turn: entry_addr_ is assigned, Load is called with start
\* and size, and the entry made is appended and handed to the callback.
Catalog_Load(t) ==
    /\ pc[t] = "Catalog_load"
    /\ LET target == catalog.target
           start == loc[t].entry.start
           next == loc[t].entry.next
           file == [id |-> catalog.made + 1, start |-> start]
           r == Callback(target, loc[t].op, file, loc[t].addr)
           load == [entry |-> loc[t].entry.id, start |-> start, read |-> loc[t].entry.read]
       IN IF ~Load(target, start)
          THEN /\ catalog' = [catalog EXCEPT
                      !.entry_addr_ = EntryAfterInvalid(catalog.impl, next)]
               /\ catalogLog' = [catalogLog EXCEPT !.loads = Append(@, load)]
               /\ UNCHANGED loc
               /\ pc' = [pc EXCEPT ![t] = IF catalog.impl = "JitDebugImpl"
                                          THEN "Catalog_unlock"
                                          ELSE "Catalog_walk"]
          ELSE /\ catalog' = [catalog EXCEPT
                      !.entry_addr_ = next,
                      !.entries_ = PushBack(@, file),
                      !.made = @ + 1]
               /\ catalogLog' = [catalogLog EXCEPT
                      !.loaded = Append(@, file),
                      !.loads = Append(@, load)]
               /\ loc' = [loc EXCEPT
                      ![t].events = @ \o r.events,
                      ![t].result = IF r.hit THEN file.id ELSE 0]
               /\ pc' = [pc EXCEPT ![t] = IF r.hit THEN "Catalog_unlock"
                                          ELSE "Catalog_walk"]
    /\ UNCHANGED <<env, mapVars, calls, histVars, memVars, otherThanCatalog>>

\* The return, releasing lock_.  found keeps what Find returned for a pc
\* from its first non-null result on; last is the call that returned, with
\* the number of entries it found loaded and the entries it leaves.
Catalog_Unlock(t) ==
    /\ pc[t] = "Catalog_unlock"
    /\ catalog' = [catalog EXCEPT !.lock_ = Null]
    /\ LET answer == [addr |-> loc[t].addr, result |-> loc[t].result]
           hit == \E f \in catalogLog.found : f.addr = loc[t].addr
       IN catalogLog' = [catalogLog EXCEPT
              !.done = @ + 1,
              !.found = IF loc[t].op = "Find" /\ (hit \/ loc[t].result # 0)
                        THEN @ \cup {answer} ELSE @,
              !.last = [op |-> loc[t].op, addr |-> loc[t].addr, events |-> loc[t].events,
                        result |-> loc[t].result, had |-> loc[t].had,
                        entries |-> catalog.entries_]]
    /\ pc' = [pc EXCEPT ![t] = "idle"]
    /\ loc' = [loc EXCEPT ![t] = Idle]
    /\ UNCHANGED <<env, mapVars, calls, histVars, memVars, otherThanCatalog>>

Catalogs ==
    {GlobalDebugImpl(impl, target) :
        impl \in {"GlobalDebugImpl", "JitDebugImpl"}, target \in JitTargets}

InitCatalog ==
    /\ env = SplitLibrary
    /\ elf = [m \in MapIds |-> Null]
    /\ elf_offset = [m \in MapIds |-> 0]
    /\ elf_start_offset = [m \in MapIds |-> 0]
    /\ memory_backed_elf = [m \in MapIds |-> FALSE]
    /\ load_bias = [m \in MapIds |-> INT64_MAX]
    /\ build_id = [m \in MapIds |-> Null]
    /\ mutex = [m \in MapIds |-> Null]
    /\ elfs = [id \in ElfIds |-> NoElf]
    /\ pc = [t \in Threads |-> "idle"]
    /\ loc = [t \in Threads |-> Idle]
    /\ calls = 0
    /\ obsElf = [m \in MapIds |-> {}]
    /\ retBias = [m \in MapIds |-> {}]
    /\ retBuildId = [m \in MapIds |-> {}]
    /\ object = NullMem
    /\ last = [kind |-> "none"]
    /\ remoteLog = NoLog
    /\ initOk = FALSE
    /\ catalog \in Catalogs
    /\ catalogLog = NoCatalogLog
    /\ IdleDex
    /\ IdleIntern

NextCatalog ==
    \E t \in Threads :
        \/ CallFind(t)
        \/ CallCatalogGetFunctionName(t)
        \/ Catalog_Lock(t)
        \/ Catalog_Init(t)
        \/ Catalog_Scan(t)
        \/ Catalog_Walk(t)
        \/ Catalog_Load(t)
        \/ Catalog_Unlock(t)

SpecCatalog == InitCatalog /\ [][NextCatalog]_vars


\* The descriptor cannot be resolved or is not valid.
Unusable(target) == ~target.resolved \/ ReadDescriptor(target) = 0

\* C14: whatever calls are made and however they interleave, the descriptor
\* is looked up at most once per catalog; when it cannot be resolved or is
\* invalid, no entry is ever read or loaded and every call returns a miss.
C14_InitOnce ==
    catalog.impl # "none" =>
        /\ catalogLog.resolves <= 1
        /\ Unusable(catalog.target) =>
              /\ catalog.entries_ = <<>>
              /\ catalog.entry_addr_ = 0
              /\ catalogLog.read = <<>>
              /\ catalogLog.last.op # "none" => catalogLog.last.result = 0

C14_Witness ==
    /\ catalog.impl # "none"
    /\ Unusable(catalog.target)
    /\ catalogLog.done >= 2
    /\ catalogLog.resolves = 1


\* C15: in the walk of a GlobalDebugImpl, an entry whose symbol file cannot
\* be built is not appended to entries_, and no entry is read after one
\* whose symfile_addr is zero.
C15_SkipFailedHaltOnZero ==
    catalog.impl = "GlobalDebugImpl" =>
        /\ \A i \in DOMAIN catalog.entries_ :
              Load(catalog.target, catalog.entries_[i].start)
        /\ \A j, k \in DOMAIN catalogLog.read :
              j < k => catalog.target.list[catalogLog.read[j]].symfile_addr # 0


\* C16: entries_ is, in order, the symbol files appended so far; and from the
\* first time Find returns a symbol file for a pc, it returns that same file
\* for that pc, and the file is still in entries_.
C16_EntriesAppendOnly ==
    catalog.impl # "none" =>
        /\ catalog.entries_ = catalogLog.loaded
        /\ \A f, g \in catalogLog.found : f.addr = g.addr => f.result = g.result
        /\ \A f \in catalogLog.found :
              \E i \in DOMAIN catalog.entries_ : catalog.entries_[i].id = f.result

C16_Witness ==
    /\ catalog.impl = "GlobalDebugImpl"
    /\ Len(catalog.entries_) = 2
    /\ catalogLog.last.op = "Find"
    /\ catalogLog.last.had = 2
    /\ catalogLog.last.result = catalog.entries_[1].id
    /\ IsValidPc(catalog.target, catalog.entries_[2], catalogLog.last.addr)

\* The entries of the target list the walk can read.
Reachable(target) ==
    IF Unusable(target) THEN {}
    ELSE {i \in DOMAIN target.list :
            /\ i >= target.first_entry
            /\ \A j \in target.first_entry .. i : target.list[j].readable}

\* The first of entries that is valid for addr, 0 if none is.
FirstValid(target, entries, addr) ==
    LET valid == {i \in DOMAIN entries : IsValidPc(target, entries[i], addr)}
    IN IF valid = {} THEN 0
       ELSE entries[CHOOSE i \in valid : \A j \in valid : i <= j].id

\* C17: a call on a GlobalDebugImpl tests the entries it finds loaded, in
\* load order, before it reads an entry of the target list; it asks a symbol
\* file for a function name only when IsValidPc(pc) holds of it; and Find
\* returns the first entry in load order that is valid for pc, and null only
\* when neither a loaded entry nor an entry it can load from the list is
\* valid for pc.
C17_LookupOrder ==
    (catalog.impl = "GlobalDebugImpl" /\ catalogLog.last.op # "none") =>
        LET call == catalogLog.last
            target == catalog.target
            tested == SelectSeq(call.events, LAMBDA e : e.call = "IsValidPc")
        IN /\ \A i, j \in DOMAIN call.events :
                 (i < j /\ call.events[i].call = "ReadEntry") =>
                     \/ call.events[j].call = "ReadEntry"
                     \/ call.events[j].id > call.had
           /\ \A i, j \in DOMAIN tested : i < j => tested[i].id < tested[j].id
           /\ \A i \in DOMAIN call.events :
                 call.events[i].call = "GetFunctionName" =>
                     \E k \in DOMAIN call.entries :
                        /\ call.entries[k].id = call.events[i].id
                        /\ IsValidPc(target, call.entries[k], call.addr)
           /\ call.op = "Find" =>
                 /\ call.result = FirstValid(target, call.entries, call.addr)
                 /\ call.result = 0 =>
                       \A i \in Reachable(target) :
                          Load(target, target.list[i].symfile_addr) =>
                             ~IsValidPc(target, [id |-> 0,
                                                 start |-> target.list[i].symfile_addr],
                                        call.addr)

C17_Witness ==
    /\ catalog.impl = "GlobalDebugImpl"
    /\ catalogLog.last.op = "GetFunctionName"
    /\ catalogLog.last.had >= 1
    /\ \E i, j, k \in DOMAIN catalogLog.last.events :
          /\ i < j /\ j < k
          /\ catalogLog.last.events[i].call = "IsValidPc"
          /\ catalogLog.last.events[j].call = "ReadEntry"
          /\ catalogLog.last.events[k].call = "GetFunctionName"


(***************************************************************************)
(* DexFile::GetFunctionName and its symbols_ cache (DexFile.cpp).  The ART *)
(* symbolizer is given by the methods of the DEX file: each has a code     *)
(* offset, a code size and a name, and the code of two methods does not    *)
(* overlap.  symbols_ maps the end offset of a method to its start offset  *)
(* and its name.                                                           *)
(***************************************************************************)
Method(offset, code_size, name) == [offset |-> offset, code_size |-> code_size, name |-> name]

\* A DexFile as constructed: nothing cached.
DexFile(base_addr, file_size, methods) ==
    [kind |-> "dex", base_addr_ |-> base_addr, file_size_ |-> file_size,
     methods |-> methods, symbols_ |-> <<>>]

DexFiles ==
    {DexFile(1000, 32, {Method(0, 10, "a"), Method(10, 6, "b"), Method(20, 4, "c")}),
     DexFile(1000, 32, {Method(4, 4, "x"), Method(8, 8, "y"), Method(16, 16, "z")})}

DexPcs == {999} \cup {1000 + off : off \in {0, 4, 5, 9, 10, 15, 16, 19, 20, 23, 24, 31, 32}}

\* dex_->FindMethodAtOffset(dex_offset, callback): the methods the callback
\* is called with.
FindMethodAtOffset(methods, dex_offset) ==
    {m \in methods : m.offset <= dex_offset /\ dex_offset < m.offset + m.code_size}

\* A cache keyed by the start offset.
SymbolKey_Start(method) == method.offset

\* The key of the entry made for a method: offset + code_size.
SymbolKey(method) == method.offset + method.code_size

\* symbols_.emplace(key, info): an entry that is there already is kept.
Emplace(symbols, key, info) ==
    IF key \in DOMAIN symbols THEN symbols ELSE symbols @@ (key :> info)

\* A lookup that takes the candidate whatever its start.
Accepted_Always(info, dex_offset) == TRUE

\* The test made of the candidate upper_bound returns.
Accepted(info, dex_offset) == ~(dex_offset < info.offset)

\* The keys above dex_offset: upper_bound(dex_offset) is the least of them.
KeysAbove(symbols, dex_offset) == {k \in DOMAIN symbols : k > dex_offset}

\* DexFile::GetFunctionName(dex_pc, method_name, method_offset): the object
\* afterwards, the value returned, the outputs, and whether the candidate of
\* the cache was taken.
DexFile_GetFunctionName(d, dex_pc) ==
    LET dex_offset == Sub64(dex_pc, d.base_addr_)
        above == KeysAbove(d.symbols_, dex_offset)
        it == CHOOSE k \in above : \A j \in above : k <= j
        hit == above # {} /\ Accepted(d.symbols_[it], dex_offset)
        found == FindMethodAtOffset(d.methods, dex_offset)
        method == CHOOSE m \in found : TRUE
        symbols == Emplace(d.symbols_, SymbolKey(method),
                           [offset |-> method.offset, name |-> method.name])
    IN IF hit
       THEN [dex |-> d, ok |-> TRUE, hit |-> TRUE, name |-> d.symbols_[it].name,
             method_offset |-> dex_offset - d.symbols_[it].offset]
       ELSE IF found = {}
       THEN [dex |-> d, ok |-> FALSE, hit |-> FALSE, name |-> "", method_offset |-> 0]
       ELSE [dex |-> [d EXCEPT !.symbols_ = symbols], ok |-> TRUE, hit |-> FALSE,
             name |-> symbols[SymbolKey(method)].name,
             method_offset |-> dex_offset - symbols[SymbolKey(method)].offset]

GetFunctionName ==
    /\ dex.kind = "dex"
    /\ \E dex_pc \in DexPcs :
          LET r == DexFile_GetFunctionName(dex, dex_pc)
          IN /\ dex' = r.dex
             /\ dexLog' = [op |-> "GetFunctionName", dex_pc |-> dex_pc,
                           dex_offset |-> Sub64(dex_pc, dex.base_addr_), ok |-> r.ok,
                           hit |-> r.hit, name |-> r.name,
                           method_offset |-> r.method_offset, before |-> dex.symbols_]
    /\ UNCHANGED <<env, mapVars, pc, loc, calls, histVars, memVars, otherThanDex>>

InitDex ==
    /\ env = SplitLibrary
    /\ elf = [m \in MapIds |-> Null]
    /\ elf_offset = [m \in MapIds |-> 0]
    /\ elf_start_offset = [m \in MapIds |-> 0]
    /\ memory_backed_elf = [m \in MapIds |-> FALSE]
    /\ load_bias = [m \in MapIds |-> INT64_MAX]
    /\ build_id = [m \in MapIds |-> Null]
    /\ mutex = [m \in MapIds |-> Null]
    /\ elfs = [id \in ElfIds |-> NoElf]
    /\ pc = [t \in Threads |-> "idle"]
    /\ loc = [t \in Threads |-> Idle]
    /\ calls = 0
    /\ obsElf = [m \in MapIds |-> {}]
    /\ retBias = [m \in MapIds |-> {}]
    /\ retBuildId = [m \in MapIds |-> {}]
    /\ object = NullMem
    /\ last = [kind |-> "none"]
    /\ remoteLog = NoLog
    /\ initOk = FALSE
    /\ catalog = NoCatalog
    /\ catalogLog = NoCatalogLog
    /\ dex \in DexFiles
    /\ dexLog = NoDexLog
    /\ IdleIntern

NextDex == GetFunctionName

SpecDex == InitDex /\ [][NextDex]_vars

\* C18: every entry of symbols_ has its start below its key, and no two
\* cached intervals [start, key) overlap.
C18_SymbolCacheIntervals ==
    dex.kind = "dex" =>
        /\ \A end \in DOMAIN dex.symbols_ : dex.symbols_[end].offset < end
        /\ \A e1, e2 \in DOMAIN dex.symbols_ :
              e1 < e2 => e1 <= dex.symbols_[e2].offset

C18_Witness ==
    /\ dex.kind = "dex"
    /\ Cardinality(DOMAIN dex.symbols_) = 3
    /\ \E e1, e2 \in DOMAIN dex.symbols_ : e1 = dex.symbols_[e2].offset

\* What the symbolizer answers for dex_offset.
Symbolize(methods, dex_offset) ==
    LET found == FindMethodAtOffset(methods, dex_offset)
        method == CHOOSE m \in found : TRUE
    IN IF found = {} THEN [ok |-> FALSE, name |-> "", method_offset |-> 0]
       ELSE [ok |-> TRUE, name |-> method.name, method_offset |-> dex_offset - method.offset]

\* C19: a call takes the cached interval with the least end above pc_off if
\* and only if there is one and its start is at most pc_off; what a call
\* returns is what the symbolizer answers for pc_off; after a miss that found
\* a method its interval is cached; and the same query made again is a hit
\* with the same result.
C19_LookupEqualsSymbolizer ==
    dexLog.op # "none" =>
        LET off == dexLog.dex_offset
            above == {k \in DOMAIN dexLog.before : k > off}
            least == CHOOSE k \in above : \A j \in above : k <= j
            again == DexFile_GetFunctionName(dex, dexLog.dex_pc)
        IN /\ dexLog.hit <=> (above # {} /\ dexLog.before[least].offset <= off)
           /\ [ok |-> dexLog.ok, name |-> dexLog.name,
               method_offset |-> dexLog.method_offset] = Symbolize(dex.methods, off)
           /\ (dexLog.ok /\ ~dexLog.hit) =>
                 \E m \in dex.methods :
                    /\ m.offset <= off /\ off < m.offset + m.code_size
                    /\ m.offset + m.code_size \in DOMAIN dex.symbols_
                    /\ dex.symbols_[m.offset + m.code_size] =
                          [offset |-> m.offset, name |-> m.name]
           /\ dexLog.ok =>
                 /\ again.hit
                 /\ again.name = dexLog.name
                 /\ again.method_offset = dexLog.method_offset
                 /\ again.dex = dex

C19_Witness ==
    /\ dexLog.op # "none"
    /\ dexLog.hit
    /\ dexLog.method_offset > 0
    /\ Cardinality(DOMAIN dexLog.before) >= 2
    /\ \E k \in DOMAIN dexLog.before : k <= dexLog.dex_offset


(***************************************************************************)
(* DexFile::CreateFromDisk and the table g_mapped_dex_files (DexFile.cpp). *)
(* A DexFile made from disk is named by its position in `objects`; 0 is a  *)
(* null pointer.  A shared_ptr a thread got from CreateFromDisk is in      *)
(* held[t] until the thread drops it; the table holds weak_ptrs, which     *)
(* count for nothing.                                                      *)
(***************************************************************************)
\* MappedFileKey(path, offset, size)
MappedFileKey(name, offset, size) == [name |-> name, offset |-> offset, size |-> size]

\* Where the file holds a DEX file art_api::dex::DexFile::Create accepts.
DexBlobs == {MappedFileKey("libc.so", 0, 100), MappedFileKey("libc.so", 4096, 200)}

InternAddrs == {4096, 4196, 8192}

InternSizes == {100, 200, 8192}

\* Whether some shared_ptr to the object is held.
Alive(state, id) == \E t \in Threads : id \in state.held[t]

\* A weak_ptr that never yields its object.
WeakLock_Expired(state, key) == 0

\* g_mapped_dex_files[cache_key].lock(): the object of the entry if there is
\* an entry, it was assigned, and the object is still held.
WeakLock(state, key) ==
    IF key \in DOMAIN state.g_mapped_dex_files
       /\ state.g_mapped_dex_files[key] # 0
       /\ Alive(state, state.g_mapped_dex_files[key])
    THEN state.g_mapped_dex_files[key]
    ELSE 0

\* g_mapped_dex_files[cache_key]: an entry holding an empty weak_ptr is made
\* if there is none.
CacheEntry(state, key) ==
    IF key \in DOMAIN state.g_mapped_dex_files THEN state
    ELSE [state EXCEPT !.g_mapped_dex_files = @ @@ (key :> 0)]

\* The DexFile of key some thread holds, 0 if there is none.
AliveFor(state, key) ==
    LET ids == {id \in DOMAIN state.objects :
                   state.objects[id].key = key /\ Alive(state, id)}
    IN IF ids = {} THEN 0 ELSE CHOOSE id \in ids : TRUE

CallCreateFromDisk(t) ==
    /\ pc[t] = "idle"
    /\ calls < MaxCalls
    /\ calls' = calls + 1
    /\ \E addr \in InternAddrs, size \in InternSizes, map \in MapIds \cup {Null} :
          loc' = [loc EXCEPT ![t] = [op |-> "CreateFromDisk", addr |-> addr, size |-> size,
                                     map |-> map,
                                     key |-> MappedFileKey("", 0, 0)]]
    /\ pc' = [pc EXCEPT ![t] = "Intern_check"]
    /\ UNCHANGED <<env, mapVars, histVars, memVars, libVars>>

\* The tests of map, addr and size, and offset_in_file.
Intern_Check(t) ==
    /\ pc[t] = "Intern_check"
    /\ LET map == IF loc[t].map = Null THEN MapArgs(0, 0, 0, {}, "", Null)
                  ELSE env.maps[loc[t].map]
           addr == loc[t].addr
           size == loc[t].size
           offset_in_file == Add64(addr - map.start, map.offset)
       IN IF \/ loc[t].map = Null \/ map.name = ""
             \/ ~(map.start <= addr /\ addr < map.end)
             \/ size > map.end - addr
          THEN /\ internLog' = [op |-> "CreateFromDisk", locked |-> FALSE, result |-> 0]
               /\ pc' = [pc EXCEPT ![t] = "idle"]
               /\ loc' = [loc EXCEPT ![t] = Idle]
          ELSE /\ loc' = [loc EXCEPT ![t].key = MappedFileKey(map.name, offset_in_file, size)]
               /\ pc' = [pc EXCEPT ![t] = "Intern_lock"]
               /\ UNCHANGED internLog
    /\ UNCHANGED <<env, mapVars, calls, histVars, memVars, interned, otherThanIntern>>

\* std::lock_guard<std::mutex> guard(g_lock)
Intern_Lock(t) ==
    /\ pc[t] = "Intern_lock"
    /\ interned.g_lock = Null
    /\ interned' = [interned EXCEPT !.g_lock = t]
    /\ pc' = [pc EXCEPT ![t] = "Intern_locked"]
    /\ UNCHANGED <<env, mapVars, loc, calls, histVars, memVars, internLog, otherThanIntern>>

\* The rest of CreateFromDisk, under g_lock, to the return that releases it.
Intern_Locked(t) ==
    /\ pc[t] = "Intern_locked"
    /\ LET key == loc[t].key
           entered == CacheEntry(interned, key)
           dex_file == WeakLock(entered, key)
           memory == MemoryFileAtOffset_Init(env, key.name, key.offset, key.size)
           parsed == memory # NullMem /\ key \in DexBlobs
           made == Len(interned.objects) + 1
           log == [op |-> "CreateFromDisk", locked |-> TRUE, key |-> key,
                   alive |-> AliveFor(interned, key), had |-> Len(interned.objects)]
       IN IF dex_file # 0
          THEN /\ interned' = [entered EXCEPT !.g_lock = Null,
                                              !.held[t] = @ \cup {dex_file}]
               /\ internLog' = log @@ [result |-> dex_file, parsed |-> FALSE]
          ELSE IF ~parsed
          THEN /\ interned' = [entered EXCEPT !.g_lock = Null]
               /\ internLog' = log @@ [result |-> 0, parsed |-> FALSE]
          ELSE /\ interned' = [entered EXCEPT
                                  !.g_lock = Null,
                                  !.objects = Append(@, [key |-> key,
                                                         base_addr_ |-> loc[t].addr]),
                                  !.g_mapped_dex_files[key] = made,
                                  !.held[t] = @ \cup {made}]
               /\ internLog' = log @@ [result |-> made, parsed |-> TRUE]
    /\ pc' = [pc EXCEPT ![t] = "idle"]
    /\ loc' = [loc EXCEPT ![t] = Idle]
    /\ UNCHANGED <<env, mapVars, calls, histVars, memVars, otherThanIntern>>

\* A thread drops a shared_ptr it holds.
DropHandle(t) ==
    /\ \E id \in interned.held[t] :
          interned' = [interned EXCEPT !.held[t] = @ \ {id}]
    /\ UNCHANGED <<env, mapVars, pc, loc, calls, histVars, memVars, internLog, otherThanIntern>>

InitIntern ==
    /\ env = SplitLibrary
    /\ elf = [m \in MapIds |-> Null]
    /\ elf_offset = [m \in MapIds |-> 0]
    /\ elf_start_offset = [m \in MapIds |-> 0]
    /\ memory_backed_elf = [m \in MapIds |-> FALSE]
    /\ load_bias = [m \in MapIds |-> INT64_MAX]
    /\ build_id = [m \in MapIds |-> Null]
    /\ mutex = [m \in MapIds |-> Null]
    /\ elfs = [id \in ElfIds |-> NoElf]
    /\ pc = [t \in Threads |-> "idle"]
    /\ loc = [t \in Threads |-> Idle]
    /\ calls = 0
    /\ obsElf = [m \in MapIds |-> {}]
    /\ retBias = [m \in MapIds |-> {}]
    /\ retBuildId = [m \in MapIds |-> {}]
    /\ object = NullMem
    /\ last = [kind |-> "none"]
    /\ remoteLog = NoLog
    /\ initOk = FALSE
    /\ catalog = NoCatalog
    /\ catalogLog = NoCatalogLog
    /\ IdleDex
    /\ IdleIntern

NextIntern ==
    \E t \in Threads :
        \/ CallCreateFromDisk(t)
        \/ Intern_Check(t)
        \/ Intern_Lock(t)
        \/ Intern_Locked(t)
        \/ DropHandle(t)

SpecIntern == InitIntern /\ [][NextIntern]_vars

\* C20: a CreateFromDisk that reaches the table while some thread holds a
\* DexFile of its key returns that DexFile and parses nothing; one that
\* finds no DexFile of its key held returns null or a DexFile it has just
\* parsed; and no two DexFiles of one key are held at once.
C20_DexInterning ==
    /\ (internLog.op # "none" /\ internLog.locked) =>
          /\ internLog.alive # 0 =>
                (internLog.result = internLog.alive /\ ~internLog.parsed)
          /\ internLog.alive = 0 =>
                (internLog.result # 0 =>
                    (internLog.parsed /\ internLog.result > internLog.had))
    /\ \A t1, t2 \in Threads :
          \A i \in interned.held[t1], j \in interned.held[t2] :
             interned.objects[i].key = interned.objects[j].key => i = j

C20_Witness ==
    /\ internLog.op # "none"
    /\ internLog.locked
    /\ internLog.alive = 2
    /\ internLog.result = 2
    /\ interned.objects[1].key = interned.objects[2].key
    /\ \A t \in Threads : 2 \in interned.held[t]


(***************************************************************************)
(* Elf::GetGlobalVariableOffset.  Elf.cpp is not part of the sources at    *)
(* hand: the operator follows the description of get_global_variable_      *)
(* offset, and the get_global_* tests of ElfTest.cpp give the inputs and   *)
(* the values it has to return.  An address has AddrBits bits here, so the *)
(* top byte of a pointer (the tag on arm64) is bits AddrBits-8 and up.     *)
(***************************************************************************)
IdleMapInfo ==
    /\ env = SplitLibrary
    /\ elf = [m \in MapIds |-> Null]
    /\ elf_offset = [m \in MapIds |-> 0]
    /\ elf_start_offset = [m \in MapIds |-> 0]
    /\ memory_backed_elf = [m \in MapIds |-> FALSE]
    /\ load_bias = [m \in MapIds |-> INT64_MAX]
    /\ build_id = [m \in MapIds |-> Null]
    /\ mutex = [m \in MapIds |-> Null]
    /\ elfs = [id \in ElfIds |-> NoElf]
    /\ pc = [t \in Threads |-> "idle"]
    /\ loc = [t \in Threads |-> Idle]
    /\ calls = 0
    /\ obsElf = [m \in MapIds |-> {}]
    /\ retBias = [m \in MapIds |-> {}]
    /\ retBuildId = [m \in MapIds |-> {}]

TagShift == AddrBits - 8

\* 0x88 in the top byte of a pointer, as in 0x8800000000000580
Tagged(v) == 136 * (2 ^ TagShift) + v

\* ElfInterfaceMock: GetGlobalVariable and the MockSet... fields
ElfInterfaceMock(found, vaddr, data, dynamic) ==
    [found |-> found, vaddr |-> vaddr,
     data_vaddr_start |-> data[1], data_vaddr_end |-> data[2], data_offset |-> data[3],
     dynamic_vaddr_start |-> dynamic[1], dynamic_vaddr_end |-> dynamic[2],
     dynamic_offset |-> dynamic[3]]

NoSection == <<0, 0, 0>>

ElfFake(valid, arch, interface) ==
    [kind |-> "elf", valid |-> valid, arch |-> arch, interface |-> interface]

\* vaddr &= (1ULL << 56) - 1
ClearTag(vaddr) == vaddr % (2 ^ TagShift)

GetGlobalVariableOffset_Unmasked(e) ==
    LET i == e.interface
        vaddr == i.vaddr
    IN IF ~e.valid \/ ~i.found THEN [ok |-> FALSE, offset |-> 0]
       ELSE IF vaddr >= i.data_vaddr_start /\ vaddr < i.data_vaddr_end
       THEN [ok |-> TRUE, offset |-> Add64(Sub64(vaddr, i.data_vaddr_start), i.data_offset)]
       ELSE IF vaddr >= i.dynamic_vaddr_start /\ vaddr < i.dynamic_vaddr_end
       THEN [ok |-> TRUE,
             offset |-> Add64(Sub64(vaddr, i.dynamic_vaddr_start), i.dynamic_offset)]
       ELSE [ok |-> FALSE, offset |-> 0]

GetGlobalVariableOffset(e) ==
    LET i == e.interface
        vaddr == IF e.arch = "ARCH_ARM64" THEN ClearTag(i.vaddr) ELSE i.vaddr
    IN IF ~e.valid \/ ~i.found THEN [ok |-> FALSE, offset |-> 0]
       ELSE IF vaddr >= i.data_vaddr_start /\ vaddr < i.data_vaddr_end
       THEN [ok |-> TRUE, offset |-> Add64(Sub64(vaddr, i.data_vaddr_start), i.data_offset)]
       ELSE IF vaddr >= i.dynamic_vaddr_start /\ vaddr < i.dynamic_vaddr_end
       THEN [ok |-> TRUE,
             offset |-> Add64(Sub64(vaddr, i.dynamic_vaddr_start), i.dynamic_offset)]
       ELSE [ok |-> FALSE, offset |-> 0]

\* The get_global_* tests: the Elf each one builds and what it expects.
\* 0x300 = 768, 0x500 = 1280, 0x580 = 1408, 0x600 = 1536, 0x800 = 2048,
\* 0x880 = 2176, 0x900 = 2304, 0xa000 = 40960, 0xc000 = 49152.
DataSection == <<1280, 1536, 40960>>

DynamicSection == <<2048, 2304, 49152>>

ElfTests ==
    { [name |-> "get_global_invalid_elf",
       elf |-> ElfFake(FALSE, "ARCH_UNKNOWN", ElfInterfaceMock(FALSE, 0, NoSection, NoSection)),
       ok |-> FALSE, offset |-> 0],
      [name |-> "get_global_valid_not_in_interface",
       elf |-> ElfFake(TRUE, "ARCH_UNKNOWN", ElfInterfaceMock(FALSE, 0, NoSection, NoSection)),
       ok |-> FALSE, offset |-> 0],
      [name |-> "get_global_vaddr_in_no_sections",
       elf |-> ElfFake(TRUE, "ARCH_UNKNOWN", ElfInterfaceMock(TRUE, 768, NoSection, NoSection)),
       ok |-> FALSE, offset |-> 0],
      [name |-> "get_global_vaddr_in_data_section",
       elf |-> ElfFake(TRUE, "ARCH_UNKNOWN", ElfInterfaceMock(TRUE, 1408, DataSection, NoSection)),
       ok |-> TRUE, offset |-> 41088],
      [name |-> "get_global_vaddr_in_dynamic_section",
       elf |-> ElfFake(TRUE, "ARCH_UNKNOWN",
                       ElfInterfaceMock(TRUE, 2176, DataSection, DynamicSection)),
       ok |-> TRUE, offset |-> 49280],
      [name |-> "get_global_vaddr_with_tagged_pointer",
       elf |-> ElfFake(TRUE, "ARCH_ARM64",
                       ElfInterfaceMock(TRUE, Tagged(1408), DataSection, NoSection)),
       ok |-> TRUE, offset |-> 41088],
      [name |-> "get_global_vaddr_without_tagged_pointer",
       elf |-> ElfFake(TRUE, "ARCH_X86_64",
                       ElfInterfaceMock(TRUE, Tagged(1408),
                                        <<Tagged(1280), Tagged(1536), Tagged(40960)>>,
                                        NoSection)),
       ok |-> TRUE, offset |-> Tagged(41088)] }

GlobalVaddrs ==
    {1279, 1280, 1408, 1535, 1536, 2048, 2176, 2303, 2304,
     Tagged(1280), Tagged(1408), Tagged(2176), Tagged(2304)}

GlobalSections ==
    { <<NoSection, NoSection>>, <<DataSection, NoSection>>, <<DataSection, DynamicSection>>,
      <<NoSection, DynamicSection>>,
      <<<<Tagged(1280), Tagged(1536), Tagged(40960)>>, DynamicSection>>,
      <<DataSection, <<1408, 2304, 49152>>>>,
      <<<<1280, 1536, UINT64_MAX - 10>>, NoSection>> }

GlobalElfs ==
    {t.elf : t \in ElfTests} \cup
    { ElfFake(valid, arch, ElfInterfaceMock(found, vaddr, s[1], s[2])) :
        valid \in BOOLEAN, arch \in {"ARCH_ARM64", "ARCH_X86_64"}, found \in BOOLEAN,
        vaddr \in GlobalVaddrs, s \in GlobalSections }

CallGetGlobalVariableOffset ==
    /\ object.kind = "elf"
    /\ LET r == GetGlobalVariableOffset(object)
       IN last' = [kind |-> "global", ok |-> r.ok, offset |-> r.offset]
    /\ UNCHANGED <<env, mapVars, pc, loc, calls, histVars, object, libVars>>

InitGlobal ==
    /\ IdleMapInfo
    /\ object \in GlobalElfs
    /\ last = [kind |-> "none"]
    /\ IdleLib

NextGlobal == CallGetGlobalVariableOffset

SpecGlobal == InitGlobal /\ [][NextGlobal]_vars

\* The address the range tests see, and the ranges, as the claim words them
GlobalAddress(e) ==
    IF e.arch = "ARCH_ARM64" THEN e.interface.vaddr % (2 ^ TagShift) ELSE e.interface.vaddr

InData(e) ==
    /\ e.interface.data_vaddr_start <= GlobalAddress(e)
    /\ GlobalAddress(e) < e.interface.data_vaddr_end

InDynamic(e) ==
    /\ e.interface.dynamic_vaddr_start <= GlobalAddress(e)
    /\ GlobalAddress(e) < e.interface.dynamic_vaddr_end

\* C21: global-variable offset resolution succeeds exactly when the ELF is
\* valid, the variable is found and its vaddr (tag byte cleared on arm64 only)
\* lies in the data or the dynamic range; it then returns vaddr - range start
\* + range file offset (modulo 2^64), the data range being tried first; the
\* values the get_global_* tests expect are the ones returned.
C21_GlobalVariableOffset ==
    last.kind = "global" =>
       /\ last.ok <=> (object.valid /\ object.interface.found
                        /\ (InData(object) \/ InDynamic(object)))
       /\ (last.ok /\ InData(object)) =>
             last.offset = (GlobalAddress(object) - object.interface.data_vaddr_start
                              + object.interface.data_offset) % AddrSpace
       /\ (last.ok /\ ~InData(object)) =>
             last.offset = (GlobalAddress(object) - object.interface.dynamic_vaddr_start
                              + object.interface.dynamic_offset) % AddrSpace
       /\ \A t \in ElfTests :
             object = t.elf => (last.ok = t.ok /\ (t.ok => last.offset = t.offset))

\* a tagged arm64 pointer was resolved through the data range
C21_Witness ==
    /\ last.kind = "global"
    /\ last.ok
    /\ object.arch = "ARCH_ARM64"
    /\ object.interface.vaddr >= 2 ^ TagShift
    /\ InData(object)

(***************************************************************************)
(* DwarfSectionImpl::Eval, one CFI evaluation step, as EvalBenchmark.cpp   *)
(* drives it.  DwarfSection.cpp and RegsFake.h are not part of the sources *)
(* at hand: Eval follows the description of row evaluation, and the rows,  *)
(* the register file and the values asserted by RunBenchmark are those of  *)
(* the benchmark.  0x10000000 is 2^28 of 2^64; with AddrBits bits it is    *)
(* kUnit, small enough that 64 of them do not wrap.  loc_regs is an        *)
(* unordered_map: the loop visits the described registers in an order the  *)
(* library picks.  The expression rules are not modelled.                  *)
(***************************************************************************)
CFA_REG == -1

kReturnAddressReg == 5

kBenchmarkRegs == 64

kUnit == 2 ^ (AddrBits - 7)

RISCV64_REG_PC == 0

RISCV64_REG_RA == 1

RISCV64_REG_SP == 2

RISCV64_REG_REAL_COUNT == 32

DwarfLocation(type, v0, v1) == [type |-> type, values |-> <<v0, v1>>]

DwarfCie(ra) == [return_address_register |-> ra]

\* RegsImplFake keeps pc and sp beside the register array
RegsImplFake(total) ==
    [kind |-> "RegsImplFake", regs_ |-> [i \in 0 .. total - 1 |-> 0],
     fake_pc_ |-> 0, fake_sp_ |-> 0]

RegsRiscv64 ==
    [kind |-> "RegsRiscv64", regs_ |-> [i \in 0 .. RISCV64_REG_REAL_COUNT - 1 |-> 0],
     fake_pc_ |-> 0, fake_sp_ |-> 0]

total_regs(regs) == Cardinality(DOMAIN regs.regs_)

Regs_pc(regs) ==
    IF regs.kind = "RegsRiscv64" THEN regs.regs_[RISCV64_REG_PC] ELSE regs.fake_pc_

Regs_sp(regs) ==
    IF regs.kind = "RegsRiscv64" THEN regs.regs_[RISCV64_REG_SP] ELSE regs.fake_sp_

set_pc_LastColumn(regs, value) ==
    IF regs.kind = "RegsRiscv64"
    THEN [regs EXCEPT !.regs_[RISCV64_REG_REAL_COUNT - 1] = value]
    ELSE [regs EXCEPT !.fake_pc_ = value]

set_pc(regs, value) ==
    IF regs.kind = "RegsRiscv64" THEN [regs EXCEPT !.regs_[RISCV64_REG_PC] = value]
    ELSE [regs EXCEPT !.fake_pc_ = value]

set_sp(regs, value) ==
    IF regs.kind = "RegsRiscv64" THEN [regs EXCEPT !.regs_[RISCV64_REG_SP] = value]
    ELSE [regs EXCEPT !.fake_sp_ = value]

SetReg(regs, reg, value) == [regs EXCEPT !.regs_[reg] = value]

\* MemoryFake: empty after Clear(); "stack" holds a word at every address
\* that is 8 modulo 16
ReadWord(memory, addr) ==
    IF memory = "stack" /\ addr % 16 = 8 /\ addr + 8 <= AddrSpace
    THEN [ok |-> TRUE, value |-> (addr + 1) % AddrSpace]
    ELSE [ok |-> FALSE, value |-> 0]

NoSaved == [r \in {} |-> 0]

RegsInfo_Cleared(regs) ==
    [regs |-> [regs EXCEPT !.regs_ = [i \in DOMAIN regs.regs_ |-> 0]],
     saved |-> regs.regs_]

RegsInfo(regs) == [regs |-> regs, saved |-> NoSaved]

RegsInfo_Get_Current(info, reg) == info.regs.regs_[reg]

RegsInfo_Get(info, reg) ==
    IF reg \in DOMAIN info.saved THEN info.saved[reg] ELSE info.regs.regs_[reg]

RegsInfo_Save(info, reg) ==
    [info EXCEPT !.saved = (reg :> info.regs.regs_[reg]) @@ @]

\* EvalRegister: [ok, regs_info, return_address_undefined]
EvalRegister(rule, reg, cfa, cie, memory, info) ==
    CASE rule.type = "DWARF_LOCATION_OFFSET" ->
           LET w == ReadWord(memory, Add64(cfa, rule.values[1]))
           IN IF w.ok
              THEN [ok |-> TRUE, info |-> [info EXCEPT !.regs = SetReg(@, reg, w.value)],
                    undefined |-> FALSE]
              ELSE [ok |-> FALSE, info |-> info, undefined |-> FALSE]
      [] rule.type = "DWARF_LOCATION_VAL_OFFSET" ->
           [ok |-> TRUE,
            info |-> [info EXCEPT !.regs = SetReg(@, reg, Add64(cfa, rule.values[1]))],
            undefined |-> FALSE]
      [] rule.type = "DWARF_LOCATION_REGISTER" ->
           IF rule.values[1] >= total_regs(info.regs)
           THEN [ok |-> FALSE, info |-> info, undefined |-> FALSE]
           ELSE [ok |-> TRUE,
                 info |-> [info EXCEPT !.regs =
                              SetReg(@, reg, Add64(RegsInfo_Get(info, rule.values[1]),
                                                   rule.values[2]))],
                 undefined |-> FALSE]
      [] rule.type = "DWARF_LOCATION_UNDEFINED" ->
           [ok |-> TRUE, info |-> info, undefined |-> reg = cie.return_address_register]
      [] OTHER -> [ok |-> FALSE, info |-> info, undefined |-> FALSE]

\* The loop over loc_regs.  A run of registers is evaluated as its first half
\* followed by its second half, which keeps the evaluation of a row of 64
\* registers shallow; a failure ends the loop.
RECURSIVE EvalRegisters(_, _, _, _, _, _, _)
EvalRegisters(order, loc_regs, cfa, cie, memory, info, undefined) ==
    IF order = <<>> THEN [ok |-> TRUE, info |-> info, undefined |-> undefined]
    ELSE IF Len(order) = 1
    THEN LET reg == order[1]
         IN IF reg >= total_regs(info.regs)
            THEN [ok |-> TRUE, info |-> info, undefined |-> undefined]
            ELSE LET r == EvalRegister(loc_regs[reg], reg, cfa, cie, memory,
                                       RegsInfo_Save(info, reg))
                 IN [ok |-> r.ok, info |-> r.info, undefined |-> undefined \/ r.undefined]
    ELSE LET half == Len(order) \div 2
             a == EvalRegisters(SubSeq(order, 1, half), loc_regs, cfa, cie, memory, info,
                                undefined)
         IN IF ~a.ok THEN a
            ELSE EvalRegisters(SubSeq(order, half + 1, Len(order)), loc_regs, cfa, cie,
                               memory, a.info, a.undefined)

EvalFailed(regs) == [ok |-> FALSE, regs |-> regs, finished |-> FALSE, cfa |-> 0]

\* Eval: [ok, regs, finished, cfa]; finished is written only on success
Eval(cie, memory, loc_regs, regs, order) ==
    IF cie.return_address_register >= total_regs(regs) THEN EvalFailed(regs)
    ELSE IF CFA_REG \notin DOMAIN loc_regs THEN EvalFailed(regs)
    ELSE LET rule == loc_regs[CFA_REG]
         IN IF rule.type # "DWARF_LOCATION_REGISTER" \/ rule.values[1] >= total_regs(regs)
            THEN EvalFailed(regs)
            ELSE LET cfa == Add64(regs.regs_[rule.values[1]], rule.values[2])
                     r == EvalRegisters(order, loc_regs, cfa, cie, memory, RegsInfo(regs),
                                        FALSE)
                     new_pc == IF r.undefined THEN 0
                               ELSE r.info.regs.regs_[cie.return_address_register]
                     with_pc == set_pc(r.info.regs, new_pc)
                 IN IF ~r.ok THEN [EvalFailed(r.info.regs) EXCEPT !.cfa = cfa]
                    ELSE [ok |-> TRUE, regs |-> set_sp(with_pc, cfa),
                          finished |-> new_pc = 0, cfa |-> cfa]

\* The rows of the four benchmarks
RegisterRow(regs) ==
    [r \in regs |-> DwarfLocation("DWARF_LOCATION_REGISTER", 0, r * kUnit)]

ValOffsetRow(regs) ==
    [r \in regs |-> DwarfLocation("DWARF_LOCATION_VAL_OFFSET", r * kUnit, 0)]

CfaIsReg0 == CFA_REG :> DwarfLocation("DWARF_LOCATION_REGISTER", 0, 0)

BenchmarkRows ==
    [BM_eval_register_few_regs |-> CfaIsReg0 @@ RegisterRow({kReturnAddressReg}),
     BM_eval_register_many_regs |-> CfaIsReg0 @@ RegisterRow(0 .. kBenchmarkRegs - 1),
     BM_eval_val_offset_few_regs |-> CfaIsReg0 @@ ValOffsetRow({kReturnAddressReg}),
     BM_eval_val_offset_many_regs |-> CfaIsReg0 @@ ValOffsetRow(0 .. kBenchmarkRegs - 1)]

\* RunBenchmark: regs(64), set_pc(0x1000), set_sp(0x3500), regs[0] = 0x10000000
BenchmarkRegs ==
    SetReg(set_sp(set_pc(RegsImplFake(kBenchmarkRegs), 4096), 13568), 0, kUnit)

EvalObject(name, cie, memory, loc_regs, regs) ==
    [kind |-> "eval", name |-> name, cie |-> cie, memory |-> memory,
     loc_regs |-> loc_regs, regs |-> regs]

Benchmarks ==
    { EvalObject(name, DwarfCie(kReturnAddressReg), "empty", BenchmarkRows[name],
                 BenchmarkRegs) : name \in DOMAIN BenchmarkRows }

\* Other rows: a register file with distinct values, the CFA 16 above the
\* stack pointer column, and rules for the return address and two more
\* registers
DistinctRegs(regs) ==
    [regs EXCEPT !.regs_ = [i \in DOMAIN regs.regs_ |-> kUnit + 32 * i]]

StackColumn(regs) == IF regs.kind = "RegsRiscv64" THEN RISCV64_REG_SP ELSE 0

ReturnColumn(regs) ==
    IF regs.kind = "RegsRiscv64" THEN RISCV64_REG_RA ELSE kReturnAddressReg

NoRule == [r \in {} |-> 0]

RulesFor(reg, other) ==
    { NoRule,
      reg :> DwarfLocation("DWARF_LOCATION_REGISTER", other, 0),
      reg :> DwarfLocation("DWARF_LOCATION_VAL_OFFSET", 16, 0),
      reg :> DwarfLocation("DWARF_LOCATION_OFFSET", 8, 0) }

ReturnRulesFor(reg) ==
    RulesFor(reg, 6) \cup
    { reg :> DwarfLocation("DWARF_LOCATION_REGISTER", 7, kUnit),
      reg :> DwarfLocation("DWARF_LOCATION_OFFSET", 0, 0),
      reg :> DwarfLocation("DWARF_LOCATION_UNDEFINED", 0, 0) }

RowsOver(regs) ==
    { (CFA_REG :> DwarfLocation("DWARF_LOCATION_REGISTER", StackColumn(regs), 16))
        @@ ra @@ a @@ b :
        ra \in ReturnRulesFor(ReturnColumn(regs)), a \in RulesFor(6, 7), b \in RulesFor(7, 6) }

EvalObjects ==
    Benchmarks \cup
    UNION { { EvalObject("row", DwarfCie(ReturnColumn(regs)), "stack", row,
                         set_sp(set_pc(DistinctRegs(regs), 4096), 13568)) :
                row \in RowsOver(regs) } :
            regs \in {RegsImplFake(kBenchmarkRegs), RegsRiscv64} }

Described(loc_regs) == DOMAIN loc_regs \ {CFA_REG}

RECURSIVE Ascending(_)
Ascending(S) ==
    IF S = {} THEN <<>>
    ELSE LET m == CHOOSE x \in S : \A y \in S : x <= y
         IN <<m>> \o Ascending(S \ {m})

Reversed(s) == [i \in 1 .. Len(s) |-> s[Len(s) + 1 - i]]

\* Iteration orders of the unordered_map: every order of a small row, the
\* two monotone ones of a large row
Orders(loc_regs) ==
    LET S == Described(loc_regs)
    IN IF Cardinality(S) <= 3
       THEN { f \in [1 .. Cardinality(S) -> S] : \A x \in S : \E i \in DOMAIN f : f[i] = x }
       ELSE { Ascending(S), Reversed(Ascending(S)) }

\* One turn of the benchmark loop; regs lives across the turns
CallEval ==
    /\ object.kind = "eval"
    /\ calls < MaxCalls
    /\ \E order \in Orders(object.loc_regs) :
          LET r == Eval(object.cie, object.memory, object.loc_regs, object.regs, order)
          IN /\ object' = [object EXCEPT !.regs = r.regs]
             /\ last' = [kind |-> "eval", ok |-> r.ok, finished |-> r.finished,
                         cfa |-> r.cfa, before |-> object.regs, order |-> order]
    /\ calls' = calls + 1
    /\ UNCHANGED <<env, mapVars, pc, loc, histVars, libVars>>

InitEval ==
    /\ IdleMapInfo
    /\ object \in EvalObjects
    /\ last = [kind |-> "none"]
    /\ IdleLib

NextEval == CallEval

SpecEval == InitEval /\ [][NextEval]_vars

\* The columns set_pc and set_sp write: none of the array for RegsImplFake
PcSpColumns(regs) ==
    IF regs.kind = "RegsRiscv64" THEN {RISCV64_REG_PC, RISCV64_REG_SP} ELSE {}

Stepped == last.kind = "eval" /\ last.ok

\* the CFA of the last step, from the registers before it
CfaBefore ==
    Add64(last.before.regs_[object.loc_regs[CFA_REG].values[1]],
          object.loc_regs[CFA_REG].values[2])

\* The parts of C22 that do not concern register rules: val_offset(k) gives
\* CFA + k, the new pc is the new value of the return-address column, sp is
\* the CFA
EvalStepRest ==
    /\ last.cfa = CfaBefore
    /\ \A r \in Described(object.loc_regs) \ PcSpColumns(object.regs) :
          (r < total_regs(object.regs)
             /\ object.loc_regs[r].type = "DWARF_LOCATION_VAL_OFFSET")
          => object.regs.regs_[r] = Add64(CfaBefore, object.loc_regs[r].values[1])
    /\ LET ra == object.cie.return_address_register
       IN IF ra \in DOMAIN object.loc_regs
             /\ object.loc_regs[ra].type = "DWARF_LOCATION_UNDEFINED"
          THEN Regs_pc(object.regs) = 0
          ELSE Regs_pc(object.regs) = object.regs.regs_[ra]
    /\ Regs_sp(object.regs) = CfaBefore
    /\ last.finished <=> Regs_pc(object.regs) = 0

\* RunBenchmark's assertion: pc 0x60000000, sp 0x10000000, not finished
BenchmarkAsserts ==
    object.name \in DOMAIN BenchmarkRows =>
       /\ Stepped
       /\ ~last.finished
       /\ Regs_pc(object.regs) = 6 * kUnit
       /\ Regs_sp(object.regs) = kUnit

\* C22 as stated: after a successful step the CFA was computed from the
\* registers before the step, every register(n) rule left a copy of the value
\* register n had before the step, every val_offset(k) rule left CFA + k, the
\* new pc is the new value of the return-address column and sp is the CFA; in
\* the benchmark every turn gives pc 0x60000000, sp 0x10000000, not finished.
C22_EvalStep ==
    last.kind = "eval" =>
       /\ BenchmarkAsserts
       /\ Stepped =>
             /\ EvalStepRest
             /\ \A r \in Described(object.loc_regs) \ PcSpColumns(object.regs) :
                   (r < total_regs(object.regs)
                      /\ object.loc_regs[r].type = "DWARF_LOCATION_REGISTER")
                   => object.regs.regs_[r] = last.before.regs_[object.loc_regs[r].values[1]]

\* C22 amended: the same, but a register rule {n, k} leaves the value
\* register n had before the step plus k (k is 0 in rows built from CFI
\* instructions, and 0x50000000 in BM_eval_register_few_regs).
C22_EvalStepWithAddend ==
    last.kind = "eval" =>
       /\ BenchmarkAsserts
       /\ Stepped =>
             /\ EvalStepRest
             /\ \A r \in Described(object.loc_regs) \ PcSpColumns(object.regs) :
                   (r < total_regs(object.regs)
                      /\ object.loc_regs[r].type = "DWARF_LOCATION_REGISTER")
                   => object.regs.regs_[r] =
                         Add64(last.before.regs_[object.loc_regs[r].values[1]],
                               object.loc_regs[r].values[2])

\* a register rule was evaluated after the register it names had already
\* been given a new value in the same step
C22_Witness ==
    /\ Stepped
    /\ \E i, j \in DOMAIN last.order :
          /\ i < j
          /\ object.loc_regs[last.order[j]].type = "DWARF_LOCATION_REGISTER"
          /\ object.loc_regs[last.order[j]].values[1] = last.order[i]
          /\ object.regs.regs_[last.order[i]] # last.before.regs_[last.order[i]]

\* C23 as stated: after a successful step every register that the row does
\* not describe and that is not the stack pointer has the value it had before.
C23_FrameCondition ==
    Stepped =>
       \A r \in DOMAIN object.regs.regs_ :
          (r \notin DOMAIN object.loc_regs
             /\ ~(object.regs.kind = "RegsRiscv64" /\ r = RISCV64_REG_SP))
          => object.regs.regs_[r] = last.before.regs_[r]

\* C23 amended: every register that the row does not describe and that is
\* neither the stack pointer nor the pc keeps its value; the pc column is
\* rewritten by every step.
C23_FrameConditionButPc ==
    Stepped =>
       \A r \in DOMAIN object.regs.regs_ :
          (r \notin DOMAIN object.loc_regs /\ r \notin PcSpColumns(object.regs))
          => object.regs.regs_[r] = last.before.regs_[r]

\* a step over RegsRiscv64 changed a described register and the pc column
C23_Witness ==
    /\ Stepped
    /\ object.regs.kind = "RegsRiscv64"
    /\ RISCV64_REG_PC \notin DOMAIN object.loc_regs
    /\ object.regs.regs_[RISCV64_REG_PC] # last.before.regs_[RISCV64_REG_PC]
    /\ \E r \in Described(object.loc_regs) :
          object.regs.regs_[r] # last.before.regs_[r]

(***************************************************************************)
(* Unwinding twice over the same Maps (UnwindOfflineTest pc_straddle_arm,  *)
(* BM_offline_straddle_arm64_cached_maps).  MapInfo_GetElf is GetElf of    *)
(* MapInfo.cpp run by one thread from call to return, over the fields of   *)
(* all MapInfos.  Unwinder.cpp is not part of the sources at hand: the     *)
(* driver follows the description of the unwinder, reduced to what it asks *)
(* of the Maps: for each pc of the target's call chain it finds the map,   *)
(* gets its Elf, computes the relative pc and steps if the Elf is valid.   *)
(***************************************************************************)
MapsState ==
    [elf |-> elf, elf_offset |-> elf_offset, elf_start_offset |-> elf_start_offset,
     memory_backed_elf |-> memory_backed_elf, elfs |-> elfs]

\* lines 262-269 with a slip: the previous map always takes this map's Elf
ShareWithPrev_Always(s, m, prev) ==
    LET newElf == [s.elf EXCEPT ![prev] = s.elf[m]]
    IN [s EXCEPT !.elf = newElf,
                 !.elfs = Release(s.elfs, newElf),
                 !.memory_backed_elf[prev] = s.memory_backed_elf[m]]

\* lines 262-269
ShareWithPrev(s, m, prev) ==
    LET newElf == IF s.elf[prev] = Null
                  THEN [s.elf EXCEPT ![prev] = s.elf[m]]
                  ELSE [s.elf EXCEPT ![m] = s.elf[prev]]
    IN [s EXCEPT !.elf = newElf,
                 !.elfs = Release(s.elfs, newElf),
                 !.memory_backed_elf =
                     IF s.elf[prev] = Null
                     THEN [@ EXCEPT ![prev] = s.memory_backed_elf[m]]
                     ELSE @]

\* lines 234-250: the MapInfos once CreateMemory has returned r and the Elf
\* made of its memory is elf_
ElfCreated(s, e, m, arch, r) ==
    [s EXCEPT !.elf_offset[m] = r.elf_offset,
              !.elf_start_offset[m] = r.elf_start_offset,
              !.memory_backed_elf[m] = r.memory_backed_elf,
              !.elfs[NewElfId(m)] = NewElf(e, r.mem, arch),
              !.elf[m] = NewElfId(m)]

\* lines 255-269 on the MapInfos as the creation left them
AfterCreation(created, e, m) ==
    LET mi == e.maps[m]
        prev == mi.prev_real_map
    IN IF ~created.elfs[NewElfId(m)].valid
       THEN [created EXCEPT !.elf_start_offset[m] = mi.offset]
       ELSE IF /\ prev # Null
               /\ created.elf_start_offset[m] # mi.offset
               /\ e.maps[prev].offset = created.elf_start_offset[m]
               /\ e.maps[prev].name = mi.name
            THEN ShareWithPrev(created, m, prev)
            ELSE created

\* MapInfo::GetElf by a thread that is alone: the MapInfos after the call.
\* Each step is made once and its outcome handed on.
MapInfo_GetElf(s, e, m, arch, pm) ==
    IF s.elf[m] # Null THEN s
    ELSE LET f == [elf_offset |-> s.elf_offset[m],
                   elf_start_offset |-> s.elf_start_offset[m],
                   memory_backed_elf |-> s.memory_backed_elf[m]]
         IN CHOOSE after \in
               UNION { { AfterCreation(created, e, m) :
                            created \in {ElfCreated(s, e, m, arch, r)} } :
                       r \in {CreateMemory(e, m, f, pm)} } : TRUE

\* Maps::Find(pc)
MapsWith(e, addr) == {m \in MapIds : e.maps[m].start <= addr /\ addr < e.maps[m].end}

\* Elf::GetRelPc: pc - map_info->start() + load_bias_ + map_info->elf_offset()
GetRelPc(s, e, m, addr) ==
    Add64(Add64(Sub64(addr, e.maps[m].start), s.elfs[s.elf[m]].load_bias), s.elf_offset[m])

UnwindResult(s, frames, error) == [maps |-> s, frames |-> frames, error |-> error]

\* Unwinder::Unwind from the i-th pc of the call chain on
RECURSIVE UnwindFrom(_, _, _, _, _, _)
UnwindFrom(u, e, s, i, frames, pm) ==
    IF i > Len(u.chain) THEN UnwindResult(s, frames, "ERROR_NONE")
    ELSE IF Len(frames) >= u.max_frames
    THEN UnwindResult(s, frames, "ERROR_MAX_FRAMES_EXCEEDED")
    ELSE LET addr == u.chain[i]
         IN IF MapsWith(e, addr) = {}
            THEN UnwindResult(s, Append(frames, [pc |-> addr, map |-> Null, elf |-> Null,
                                                 rel_pc |-> addr]),
                              "ERROR_INVALID_MAP")
            ELSE LET m == CHOOSE x \in MapsWith(e, addr) : TRUE
                     frame(t) == [pc |-> addr, map |-> m, elf |-> t.elf[m],
                                  rel_pc |-> GetRelPc(t, e, m, addr)]
                 IN CHOOSE result \in
                       { IF t.elfs[t.elf[m]].valid
                         THEN UnwindFrom(u, e, t, i + 1, Append(frames, frame(t)), pm)
                         ELSE UnwindResult(t, Append(frames, frame(t)), "ERROR_INVALID_ELF") :
                         t \in {MapInfo_GetElf(s, e, m, u.arch, pm)} } : TRUE

\* DumpFrames: FormatFrame reads elf_start_offset of the frame's map when the
\* unwind is over
DumpFrames(frames, s) ==
    [i \in DOMAIN frames |->
        [frame |-> frames[i],
         offset |-> IF frames[i].map = Null THEN 0
                    ELSE s.elf_start_offset[frames[i].map]]]

\* The call chains: pcs in the read-only map, in the read-execute map and in
\* no map
ChainPcs == {4096 + 16, 8192 + 16, 8192 + 4096 + 16, 64}

Chains ==
    {<<a>> : a \in ChainPcs} \cup {<<a, b>> : a \in ChainPcs, b \in ChainPcs}
    \cup {<<a, b, c>> : a \in ChainPcs, b \in ChainPcs, c \in {8192 + 16}}

Unwinders ==
    { [kind |-> "unwinder", chain |-> chain, arch |-> arch, max_frames |-> max] :
        chain \in Chains, arch \in Archs, max \in {2, 128} }

\* Unwinder unwinder(max_frames, maps, regs_copy, process_memory); Unwind()
Unwind ==
    /\ object.kind = "unwinder"
    /\ calls < MaxCalls
    /\ \E r \in {UnwindFrom(object, env, MapsState, 1, <<>>, "process_memory")} :
       \E dump \in {DumpFrames(r.frames, r.maps)} :
          /\ elf' = r.maps.elf
          /\ elf_offset' = r.maps.elf_offset
          /\ elf_start_offset' = r.maps.elf_start_offset
          /\ memory_backed_elf' = r.maps.memory_backed_elf
          /\ elfs' = r.maps.elfs
          /\ last' = [kind |-> "unwind", frames |-> dump, error |-> r.error,
                      first |-> IF calls = 0
                                THEN [frames |-> dump, error |-> r.error,
                                      maps |-> r.maps]
                                ELSE last.first]
    /\ calls' = calls + 1
    /\ UNCHANGED <<env, load_bias, build_id, mutex, pc, loc, histVars, object, libVars>>

InitUnwind ==
    /\ env \in Scenarios
    /\ elf = [m \in MapIds |-> Null]
    /\ elf_offset = [m \in MapIds |-> 0]
    /\ elf_start_offset = [m \in MapIds |-> 0]
    /\ memory_backed_elf = [m \in MapIds |-> FALSE]
    /\ load_bias = [m \in MapIds |-> INT64_MAX]
    /\ build_id = [m \in MapIds |-> Null]
    /\ mutex = [m \in MapIds |-> Null]
    /\ elfs = [id \in ElfIds |-> NoElf]
    /\ pc = [t \in Threads |-> "idle"]
    /\ loc = [t \in Threads |-> Idle]
    /\ calls = 0
    /\ obsElf = [m \in MapIds |-> {}]
    /\ retBias = [m \in MapIds |-> {}]
    /\ retBuildId = [m \in MapIds |-> {}]
    /\ object \in Unwinders
    /\ last = [kind |-> "none"]
    /\ IdleLib

NextUnwind == Unwind

SpecUnwind == InitUnwind /\ [][NextUnwind]_vars

\* C24: every unwind after the first, from the same registers over the same
\* Maps, gives the frame list (pc, map, Elf, relative pc, displayed offset)
\* and the error code of the first, and finds in the MapInfos what the first
\* unwind left there.
C24_UnwindRepeatable ==
    (last.kind = "unwind" /\ calls >= 2) =>
       /\ last.frames = last.first.frames
       /\ last.error = last.first.error
       /\ MapsState = last.first.maps

\* a second unwind went through the read-only and the read-execute map of one
\* library, whose MapInfos share the Elf made by the first unwind
C24_Witness ==
    /\ last.kind = "unwind"
    /\ calls >= 2
    /\ Len(last.frames) >= 2
    /\ last.frames[1].frame.map = "m1"
    /\ last.frames[2].frame.map = "m2"
    /\ elf["m1"] = elf["m2"]
    /\ elf["m1"] # Null
    /\ elfs[elf["m1"]].valid

(***************************************************************************)
(* The read-only map and the read-execute map of one ELF (SpecElf).        *)
(***************************************************************************)
\* The test of lines 257-258: m's ELF starts in the map before it
PrevCarriesHeader(m) ==
    LET prev == env.maps[m].prev_real_map
    IN /\ prev # Null
       /\ elf_start_offset[m] # env.maps[m].offset
       /\ env.maps[prev].offset = elf_start_offset[m]
       /\ env.maps[prev].name = env.maps[m].name

\* The ELF header lies at the start of m itself, in the file or in memory
SelfContained(m) ==
    \/ env.file.exists /\ env.maps[m].offset \in env.file.elfAt
    \/ env.maps[m].start \in env.procElf
    \/ elf_start_offset[m] = env.maps[m].offset

HasValidElf(m) == elf[m] # Null /\ elfs[elf[m]].valid

ReturnedValidElf(m) == \E id \in obsElf[m] : id # Null /\ elfs[id].valid

InGetElf(m) == \E t \in Threads : pc[t] # "idle" /\ loc[t].op = "GetElf" /\ loc[t].m = m

CreationCompleted(m) == elfs[NewElfId(m)].state # "none" /\ ~InGetElf(m)

\* an ELF header at m's own offset in the file
ElfAtOffset(m) ==
    env.maps[m].name # "" /\ env.file.exists /\ env.maps[m].offset \in env.file.elfAt

PrevIsReadOnlyAtZero(m) ==
    LET prev == env.maps[m].prev_real_map
    IN /\ prev # Null
       /\ env.maps[prev].offset = 0
       /\ env.maps[prev].flags = PROT_READ
       /\ env.maps[prev].name = env.maps[m].name

Resident(xz) == {i \in DOMAIN xz.blocks : xz.blocks[i].decompressed}

RECURSIVE SumOver(_, _)
\* The decompressed sizes of the blocks of the set, added up.
SumOver(blocks, set) ==
    IF set = {} THEN 0
    ELSE LET i == CHOOSE j \in set : TRUE
         IN blocks[i].decompressed_size + SumOver(blocks, set \ {i})

\* The blocks a read of size bytes at addr reaches, were none to fail.
Touched(xz, addr, size) ==
    IF addr >= xz.size THEN {}
    ELSE {i \in DOMAIN xz.blocks :
             /\ i >= ShiftRight(addr, xz.block_size_log2) + 1
             /\ BlockStart(xz.blocks, i) <= addr + Max(size, 1) - 1}

\* C27: in a MemoryXz each block is decompressed at most once (used_, which
\* Decompress raises by the size of the block, is the size of the resident
\* blocks); a read leaves every resident block resident and every block's
\* size and place as they were; a read that touches only resident blocks
\* decompresses nothing and leaves the object as it was.
C27_XzBlocksStayResident ==
    /\ object.kind = "xz" => object.used = SumOver(object.blocks, Resident(object))
    /\ (last.kind = "xz" /\ object.kind = "xz") =>
          /\ Resident(last.before) \subseteq Resident(object)
          /\ Len(object.blocks) = Len(last.before.blocks)
          /\ \A i \in DOMAIN object.blocks :
                /\ object.blocks[i].decompressed_size = last.before.blocks[i].decompressed_size
                /\ object.blocks[i].sound = last.before.blocks[i].sound
          /\ object.used - last.before.used =
                SumOver(object.blocks, Resident(object) \ Resident(last.before))
          /\ Touched(last.before, last.addr, last.size) \subseteq Resident(last.before)
                => object = last.before

\* a read of two blocks of a lazy MemoryXz, both resident from earlier reads
C27_Witness ==
    /\ last.kind = "xz"
    /\ object.kind = "xz"
    /\ Len(object.blocks) > 1
    /\ last.n > 0
    /\ Cardinality(Touched(last.before, last.addr, last.size)) = 2
    /\ Touched(last.before, last.addr, last.size) \subseteq Resident(last.before)
    /\ Resident(object) # DOMAIN object.blocks

\* min(file_size - offset, size) for the arguments of an Init of the file of
\* env
ExposedLength(asked) == Min(env.file.size - asked.offset, asked.size)

\* C28: MemoryFileAtOffset::Init fails for every offset at or beyond the file
\* size; after an Init that returned true the exposed length size_ is
\* min(file_size - offset, size) and address 0 of the object is the file byte
\* at offset; a read at addr returns min(size, exposed - addr) bytes, none
\* beyond the exposed length, which are the file bytes from offset + addr on.
C28_InitExposesFile ==
    /\ (object.kind = "file_object" /\ object.asked.called) =>
          /\ (object.asked.name = "" \/ object.asked.offset >= env.file.size) => ~initOk
          /\ (initOk /\ object.data_ # NullMem) =>
                /\ object.size_ = ExposedLength(object.asked)
                /\ object.size_ > 0 =>
                      FileByteAt(object, object.data_.addr) = object.asked.offset
    /\ (last.kind = "file_object" /\ last.init_ok /\ ~last.null_deref) =>
          LET exposed == ExposedLength(last.mem.asked)
          IN /\ last.n = IF last.addr >= exposed THEN 0
                         ELSE Min(last.size, exposed - last.addr)
             /\ last.addr + last.n <= Max(exposed, last.addr)
             /\ last.n > 0 =>
                   /\ last.first = last.mem.asked.offset + last.addr
                   /\ last.final = last.mem.asked.offset + last.addr + last.n - 1

\* a read that runs into the end of the length exposed by an Init at an
\* offset inside a page with a size smaller than the rest of the file
C28_Witness ==
    /\ last.kind = "file_object"
    /\ last.init_ok
    /\ ~last.null_deref
    /\ last.mem.offset_ # 0
    /\ last.mem.size_ = last.mem.asked.size
    /\ last.mem.size_ < env.file.size - last.mem.asked.offset
    /\ last.addr > 0
    /\ last.n > 0
    /\ last.n < last.size

\* C29: over every sequence of Init (returning true or false), Clear and
\* destruction of a MemoryFileAtOffset, at most one mapping made by the
\* object is live; data_ is set exactly while one is, and that mapping
\* starts at data_ minus the slack offset_ and is size_ plus offset_ long,
\* which is what Clear hands to munmap; no munmap call was for anything else
\* than exactly one live mapping, so none is unmapped twice; and no mapping
\* is left once the object is destroyed.
C29_UnmapsWhatWasMapped ==
    object.kind = "file_object" =>
       /\ Cardinality(object.mappings) <= 1
       /\ object.stray = {}
       /\ object.data_ = NullMem <=> object.mappings = {}
       /\ \A mp \in object.mappings :
             /\ mp.addr = object.data_.addr - object.offset_
             /\ mp.length = object.size_ + object.offset_
             /\ mp.addr \in MmapAddrs
       /\ object.destroyed => object.mappings = {}

\* an object destroyed after an Init at an offset inside a page returned true
C29_Witness ==
    /\ object.kind = "file_object"
    /\ object.destroyed
    /\ initOk
    /\ object.offset_ # 0
    /\ object.size_ > 0
    /\ object.mappings = {}

(***************************************************************************)
(* JitDebugImpl::Find at an entry whose Elf is not valid.                  *)
(***************************************************************************)
\* The entries of the list (0 if there is none) that Find reaches with every
\* entry before them read and made into a valid Elf, and whose own Elf is
\* not valid.
FirstInvalid(target) ==
    LET valid(i) == target.list[i].readable /\ Load(target, target.list[i].symfile_addr)
        at == {i \in DOMAIN target.list :
                  /\ i >= target.first_entry
                  /\ target.first_entry # 0
                  /\ \A j \in target.first_entry .. i - 1 : valid(j)
                  /\ target.list[i].readable
                  /\ ~Load(target, target.list[i].symfile_addr)}
    IN IF at = {} THEN 0 ELSE CHOOSE i \in at : TRUE

\* The sequence has x among its elements.
Holds(seq, x) == \E i \in DOMAIN seq : seq[i] = x

\* The ReadEntry calls among the events of a call.
ReadEntries(events) == {i \in DOMAIN events : events[i].call = "ReadEntry"}

\* C30: in a JitDebugImpl, once Find has read the first entry of the list
\* whose Elf is not valid, entry_addr_ is 0 and stays 0; no entry after it is
\* read or loaded by that Find or a later one, an Elf is in the list only for
\* the entries before it, and the Find that read it returns null.
C30_InvalidElfHaltsJit ==
    LET k == FirstInvalid(catalog.target)
    IN (catalog.impl = "JitDebugImpl" /\ k # 0) =>
          /\ \A i \in DOMAIN catalogLog.read : catalogLog.read[i] <= k
          /\ Len(catalog.entries_) <= k - catalog.target.first_entry
          /\ \A i \in DOMAIN catalog.entries_ :
                /\ Load(catalog.target, catalog.entries_[i].start)
                /\ catalog.entries_[i].start # catalog.target.list[k].symfile_addr
          /\ (\E i \in DOMAIN catalogLog.loads : catalogLog.loads[i].entry = k) =>
                /\ catalog.entry_addr_ = 0
                /\ Len(catalog.entries_) = k - catalog.target.first_entry
                /\ Len(catalogLog.read) = k - catalog.target.first_entry + 1
          /\ \A t \in Threads :
                (pc[t] # "idle"
                 /\ \E i \in DOMAIN loc[t].events :
                       loc[t].events[i] = [call |-> "ReadEntry", id |-> k]) =>
                   /\ loc[t].result = 0
                   /\ pc[t] \in {"Catalog_load", "Catalog_unlock"}
          /\ (catalogLog.last.op # "none"
              /\ Holds(catalogLog.last.events, [call |-> "ReadEntry", id |-> k])) =>
                catalogLog.last.result = 0

\* a Find that returned after an earlier Find had stopped at an invalid Elf
\* with an entry left in the list behind it
C30_Witness ==
    LET k == FirstInvalid(catalog.target)
    IN /\ catalog.impl = "JitDebugImpl"
       /\ k # 0
       /\ k < Len(catalog.target.list)
       /\ Holds(catalogLog.read, k)
       /\ catalogLog.done >= 2
       /\ catalogLog.last.op = "Find"
       /\ ReadEntries(catalogLog.last.events) = {}
       /\ catalogLog.last.result = 0
       /\ \A t \in Threads : pc[t] = "idle"

(***************************************************************************)
(* Catalogs over target lists whose next pointers are arbitrary: in list   *)
(* order, pointing back at an earlier entry, or at the entry itself.       *)
(***************************************************************************)
CyclicTargets ==
    {JitTargetLinked(TRUE, TRUE, 1, 1,
                     <<JITCodeEntry(TRUE, 100), JITCodeEntry(TRUE, 300)>>, <<2, 1>>,
                     TwoSymfiles),
     JitTargetLinked(TRUE, TRUE, 1, 1, <<JITCodeEntry(TRUE, 100)>>, <<1>>, TwoSymfiles)}

LinkedCatalogs ==
    Catalogs \cup {GlobalDebugImpl(impl, target) :
                      impl \in {"GlobalDebugImpl", "JitDebugImpl"}, target \in CyclicTargets}

InitLinked ==
    /\ env = SplitLibrary
    /\ elf = [m \in MapIds |-> Null]
    /\ elf_offset = [m \in MapIds |-> 0]
    /\ elf_start_offset = [m \in MapIds |-> 0]
    /\ memory_backed_elf = [m \in MapIds |-> FALSE]
    /\ load_bias = [m \in MapIds |-> INT64_MAX]
    /\ build_id = [m \in MapIds |-> Null]
    /\ mutex = [m \in MapIds |-> Null]
    /\ elfs = [id \in ElfIds |-> NoElf]
    /\ pc = [t \in Threads |-> "idle"]
    /\ loc = [t \in Threads |-> Idle]
    /\ calls = 0
    /\ obsElf = [m \in MapIds |-> {}]
    /\ retBias = [m \in MapIds |-> {}]
    /\ retBuildId = [m \in MapIds |-> {}]
    /\ object = NullMem
    /\ last = [kind |-> "none"]
    /\ remoteLog = NoLog
    /\ initOk = FALSE
    /\ catalog \in LinkedCatalogs
    /\ catalogLog = NoCatalogLog
    /\ IdleDex
    /\ IdleIntern

NextLinked ==
    \E t \in Threads :
        \/ CallFind(t)
        \/ CallCatalogGetFunctionName(t)
        \/ Catalog_Lock(t)
        \/ Catalog_Init(t)
        \/ Catalog_Scan(t)
        \/ Catalog_Walk(t)
        \/ Catalog_Load(t)
        \/ Catalog_Unlock(t)

SpecLinked == InitLinked /\ [][NextLinked]_vars

\* Every next pointer of the list is null or points further down the list.
Forward(target) ==
    \A i \in DOMAIN target.list : target.next[i] = 0 \/ target.next[i] > i

\* No element occurs twice in the sequence.
Distinct(seq) == \A i, j \in DOMAIN seq : i # j => seq[i] # seq[j]

\* The thread is between the lock_guard and the return of a query.
InQuery(t) ==
    pc[t] \in {"Catalog_init", "Catalog_scan", "Catalog_walk", "Catalog_load",
               "Catalog_unlock"}

\* The entries of the target list Load was called for, in the order of the
\* calls.
LoadedFrom == [i \in DOMAIN catalogLog.loads |-> catalogLog.loads[i].entry]

\* Queries are serialised by lock_: one thread at a time is between the
\* lock_guard and its return, and it holds lock_.
Serialised ==
    /\ \A t, u \in Threads : (t # u /\ InQuery(t)) => ~InQuery(u)
    /\ \A t \in Threads : InQuery(t) => catalog.lock_ = t

\* Each entry of the target list is read at most once, Load is called for it
\* at most once, and entries_ holds at most one symbol file made of it.
AtMostOnce ==
    /\ Distinct(catalogLog.read)
    /\ Distinct(LoadedFrom)
    /\ Distinct([i \in DOMAIN catalog.entries_ |-> catalog.entries_[i].id])
    /\ Len(catalog.entries_) <= Len(catalogLog.loads)
    /\ Len(catalog.entries_) <= Len(catalog.target.list)

C33_BoundedWalk ==
    catalog.impl # "none" =>
       /\ \A t \in Threads :
             InQuery(t) =>
                Cardinality(ReadEntries(loc[t].events)) <= Len(catalog.target.list)
       /\ Len(catalog.entries_) <= Len(catalog.target.list)

\* C38 as stated: Load is called only with the start and size read from an
\* entry that could be read; for an entry that cannot be read nothing is
\* loaded or appended, and the walk ends.
C38_NoLoadOfUnreadEntry ==
    catalog.impl # "none" =>
       /\ \A i \in DOMAIN catalogLog.loads : catalogLog.loads[i].read
       /\ \A i \in DOMAIN catalog.entries_ :
             \E j \in DOMAIN catalog.target.list :
                /\ catalog.target.list[j].readable
                /\ catalog.target.list[j].symfile_addr = catalog.entries_[i].start
       /\ \A i \in DOMAIN catalogLog.loads :
             ~catalogLog.loads[i].read => catalog.entry_addr_ = 0

(***************************************************************************)
(* RegsRiscv64::StepIfSignalHandler: the step over the kernel's signal     *)
(* return trampoline.  The code at offset is read from the elf's       *)
(* memory; the saved registers are read from the process, straight into    *)
(* the register array.                                                     *)
(***************************************************************************)
\* The pseudo-register kept after the real ones.
RISCV64_REG_VLENB == RISCV64_REG_REAL_COUNT

RISCV64_REG_COUNT == RISCV64_REG_VLENB + 1

\* li a7, __NR_rt_sigreturn; scall
li_scall == <<147, 8, 176, 8, 115, 0, 0, 0>>

\* li a7, __NR_rt_sigreturn; ebreak: the code found where the trampoline is not.
li_ebreak == <<147, 8, 176, 8, 115, 0, 16, 0>>

\* An elf of size bytes whose code holds the trampoline at the offsets sigreturn.
ElfImage(size, sigreturn) == [memory |-> MemoryBuffer(size), sigreturn |-> sigreturn]

\* The 8 bytes of the elf at offset.
ElfData(image, offset) ==
    IF offset \in image.sigreturn THEN li_scall ELSE li_ebreak

\* The word the process holds at addr.
SavedWord(addr) == (3 * addr + 16) % AddrSpace

\* A RegsRiscv64 whose registers hold values of their own, with sp in SP.
SignalRegs(sp) ==
    [kind |-> "RegsRiscv64",
     regs_ |-> [i \in 0 .. RISCV64_REG_COUNT - 1 |->
                   IF i = RISCV64_REG_SP THEN sp ELSE i + 1],
     fake_pc_ |-> 0, fake_sp_ |-> 0]

RECURSIVE StoreWords(_, _, _)
\* regs_ after the copies data[i..] of a read whose destination is
\* regs_.data(): a register is written when a copy covers its 8 bytes.
StoreWords(regs_, data, i) ==
    IF i > Len(data) THEN regs_
    ELSE StoreWords(
            [r \in DOMAIN regs_ |->
                IF /\ data[i].dst <= r * SizeofLong
                   /\ r * SizeofLong + SizeofLong <= data[i].dst + data[i].len
                THEN SavedWord(data[i].src + (r * SizeofLong - data[i].dst))
                ELSE regs_[r]],
            data, i + 1)

\* The address of the saved registers: SP + sizeof(siginfo_t) + uc_mcontext
\* offset + PC offset.
SignalFrame(regs) == (regs.regs_[RISCV64_REG_SP] + 128 + 176 + 0) % AddrSpace

\* RegsRiscv64::StepIfSignalHandler(elf_offset, elf, process_memory)
StepIfSignalHandler(regs, offset, image, process_memory) ==
    LET frame == Read(process_memory, SignalFrame(regs),
                      SizeofLong * RISCV64_REG_REAL_COUNT)
    IN IF ~ReadFully(image.memory, offset, 8)
       THEN [ok |-> FALSE, regs |-> regs, process_memory |-> process_memory]
       ELSE IF ElfData(image, offset) # li_scall
       THEN [ok |-> FALSE, regs |-> regs, process_memory |-> process_memory]
       ELSE [ok |-> frame.n = SizeofLong * RISCV64_REG_REAL_COUNT,
             regs |-> [regs EXCEPT !.regs_ = StoreWords(@, frame.data, 1)],
             process_memory |-> frame.mem]

\* The stack pointers at the signal: the frame lies in one readable page, or
\* crosses from page 2 into page 3, or lies in page 3.
SignalSps == {PageSize, 3 * PageSize - 128 - 304, 3 * PageSize, 4 * PageSize + 16}

SignalOffsets == {16, 32, 60, 100}

SignalMemories ==
    {MemoryLocal(AllReadable), MemoryLocal(Holed), MemoryLocal({}),
     MemoryRemote(Target(Holed, TRUE, TRUE)), MemoryRemote(Target(Holed, FALSE, TRUE))}

SignalObjects ==
    {[kind |-> "signal", regs |-> SignalRegs(sp), process_memory |-> mem,
      image |-> ElfImage(64, {16})] :
        sp \in SignalSps, mem \in SignalMemories}

\* One call of StepIfSignalHandler, as Unwinder::Unwind makes it before the
\* step through the unwind information.
CallStepIfSignalHandler ==
    /\ object.kind = "signal"
    /\ calls < MaxCalls
    /\ \E offset \in SignalOffsets :
          \E r \in {StepIfSignalHandler(object.regs, offset, object.image,
                                        object.process_memory)} :
             /\ object' = [object EXCEPT !.regs = r.regs,
                                         !.process_memory = r.process_memory]
             /\ last' = [kind |-> "signal", ok |-> r.ok, offset |-> offset,
                         before |-> object.regs, after |-> r.regs,
                         process_memory |-> object.process_memory]
    /\ calls' = calls + 1
    /\ UNCHANGED <<env, mapVars, pc, loc, histVars, libVars>>

InitSignal ==
    /\ IdleMapInfo
    /\ object \in SignalObjects
    /\ last = [kind |-> "none"]
    /\ IdleLib

NextSignal == CallStepIfSignalHandler

SpecSignal == InitSignal /\ [][NextSignal]_vars

\* Whether the call of last found the trampoline at its offset.
SignalMatched ==
    /\ ReadFully(object.image.memory, last.offset, 8)
    /\ ElfData(object.image, last.offset) = li_scall

\* Whether the read of the saved registers of the call of last was whole.
SignalFrameRead ==
    ReadFully(last.process_memory, SignalFrame(last.before),
              SizeofLong * RISCV64_REG_REAL_COUNT)

\* C32: StepIfSignalHandler returns false and leaves every register as it
\* was when the code at the offset is not the trampoline or a read fails;
\* when the code matches and the reads succeed it returns true, and exactly
\* the real registers hold the words saved at SP + 0x80 + 0xb0.
C32_StepIfSignalHandler ==
    last.kind = "signal" =>
       /\ last.ok <=> (SignalMatched /\ SignalFrameRead)
       /\ ~last.ok => last.after = last.before
       /\ last.ok =>
             /\ \A r \in 0 .. RISCV64_REG_REAL_COUNT - 1 :
                   last.after.regs_[r] = SavedWord(SignalFrame(last.before) + r * SizeofLong)
             /\ last.after.regs_[RISCV64_REG_VLENB] = last.before.regs_[RISCV64_REG_VLENB]

\* The part of C32 that holds: a mismatch or a failed read of the code leaves
\* the registers alone, and a whole read replaces exactly the real registers.
C32_StepUnlessFrameReadFails ==
    last.kind = "signal" =>
       /\ last.ok <=> (SignalMatched /\ SignalFrameRead)
       /\ ~SignalMatched => last.after = last.before
       /\ last.ok =>
             /\ \A r \in 0 .. RISCV64_REG_REAL_COUNT - 1 :
                   last.after.regs_[r] = SavedWord(SignalFrame(last.before) + r * SizeofLong)
             /\ last.after.regs_[RISCV64_REG_VLENB] = last.before.regs_[RISCV64_REG_VLENB]

C32_Witness ==
    /\ last.kind = "signal"
    /\ last.ok
    /\ last.after # last.before

(***************************************************************************)
(* DexFile::Create and the process-wide cache g_mapped_dex_files           *)
(* (DexFile.cpp).  The heap holds the DexFile objects made so far; an      *)
(* object is alive while a shared_ptr to it is held.  The cache maps a     *)
(* (path, offset, size) key to a weak_ptr: the index of an object, 0 when  *)
(* the weak_ptr is empty.                                                  *)
(***************************************************************************)
NullMap == [name |-> "", start |-> 0, end |-> 0, offset |-> 0, null |-> TRUE]

DexMapInfo(name, start, end, offset) ==
    [name |-> name, start |-> start, end |-> end, offset |-> offset, null |-> FALSE]

\* The same file mapped at two addresses, and an anonymous map.
DexMaps ==
    {NullMap,
     DexMapInfo("base.vdex", 8 * PageSize, 10 * PageSize, 0),
     DexMapInfo("base.vdex", 16 * PageSize, 18 * PageSize, 0),
     DexMapInfo("", 2 * PageSize, 4 * PageSize, 0)}

\* What the maps show: the file holds a DEX file of 32 bytes at offset 64, and
\* so does the process wherever the file is mapped; the anonymous map holds
\* one of 32 bytes at its offset 64 and one that runs into its second page.
DexEnv ==
    [file |-> [exists |-> TRUE, size |-> 2 * PageSize,
               dexAt |-> {[offset |-> 64, size |-> 32]}],
     procDex |-> {[addr |-> 8 * PageSize + 64, size |-> 32],
                  [addr |-> 16 * PageSize + 64, size |-> 32],
                  [addr |-> 2 * PageSize + 64, size |-> 32],
                  [addr |-> 3 * PageSize - 16, size |-> 32]}]

NoDexCache ==
    [kind |-> "dex_cache", has_dex_support |-> TRUE, g_mapped_dex_files |-> <<>>,
     heap |-> <<>>, memory |-> NullMem]

\* cache_entry.lock(): the object of the entry, 0 when there is no entry, the
\* weak_ptr is empty or its object is gone.
CacheEntryLock(state, key) ==
    IF key \notin DOMAIN state.g_mapped_dex_files THEN 0
    ELSE IF state.g_mapped_dex_files[key] = 0 THEN 0
    ELSE IF state.heap[state.g_mapped_dex_files[key]].alive
    THEN state.g_mapped_dex_files[key] ELSE 0

\* g_mapped_dex_files[cache_key] = value; operator[] makes the entry.
CacheEntrySet(files, key, value) ==
    [k \in DOMAIN files \cup {key} |-> IF k = key THEN value ELSE files[k]]

\* new DexFile(memory, base_addr, file_size, dex)
NewDexFile(state, base_addr, file_size, from) ==
    [state EXCEPT !.heap = Append(@, [base_addr_ |-> base_addr, file_size_ |-> file_size,
                                      alive |-> TRUE, from |-> from])]

\* DexFile::CreateFromDisk(addr, size, map): the state afterwards and the
\* object returned, 0 for nullptr.
DexFile_CreateFromDisk(state, e, addr, size, map) ==
    LET offset_in_file == (Sub64(addr, map.start) + map.offset) % AddrSpace
        cache_key == MappedFileKey(map.name, offset_in_file, size)
        dex_file == CacheEntryLock(state, cache_key)
        entered == [state EXCEPT !.g_mapped_dex_files =
                       CacheEntrySet(@, cache_key,
                                     IF cache_key \in DOMAIN @ THEN @[cache_key] ELSE 0)]
        memory == MemoryFileAtOffset_Init(e, map.name, offset_in_file, size)
        made == NewDexFile(entered, addr, size, "disk")
    IN IF map.null \/ map.name = "" THEN [state |-> state, result |-> 0]
       ELSE IF ~(map.start <= addr /\ addr < map.end) THEN [state |-> state, result |-> 0]
       ELSE IF size > map.end - addr THEN [state |-> state, result |-> 0]
       ELSE IF dex_file # 0 THEN [state |-> entered, result |-> dex_file]
       ELSE IF memory = NullMem THEN [state |-> entered, result |-> 0]
       ELSE IF [offset |-> offset_in_file, size |-> size] \notin e.file.dexAt
       THEN [state |-> entered, result |-> 0]
       ELSE [state |-> [made EXCEPT !.g_mapped_dex_files =
                           CacheEntrySet(@, cache_key, Len(made.heap))],
             result |-> Len(made.heap)]

\* DexFile::Create(base_addr, file_size, memory, info)
DexFile_Create(state, e, base_addr, file_size, memory, info) ==
    LET disk == DexFile_CreateFromDisk(state, e, base_addr, file_size, info)
        made == NewDexFile(disk.state, base_addr, file_size, "copy")
    IN IF ~state.has_dex_support \/ file_size = 0 THEN [state |-> state, result |-> 0]
       ELSE IF disk.result # 0 THEN disk
       ELSE IF ~ReadFully(memory, base_addr, file_size)
       THEN [state |-> disk.state, result |-> 0]
       ELSE IF [addr |-> base_addr, size |-> file_size] \notin e.procDex
       THEN [state |-> disk.state, result |-> 0]
       ELSE [state |-> made, result |-> Len(made.heap)]

\* DexFile::IsValidPc(dex_pc)
DexFile_IsValidPc(d, dex_pc) ==
    d.base_addr_ <= dex_pc /\ Sub64(dex_pc, d.base_addr_) < d.file_size_

\* The addresses Create is called with: the DEX file of each map, an address
\* without one, and one whose file runs into the next page.
CreateAddrs ==
    {8 * PageSize + 64, 16 * PageSize + 64, 2 * PageSize + 64, 3 * PageSize - 16,
     8 * PageSize}

CreateSizes == {0, 32, 3 * PageSize}

CreatePcs == UNION {{a - 1, a, a + 31, a + 32} : a \in CreateAddrs}

\* One call of DexFile::Create, on the maps and the memory of the process.
CallCreate ==
    /\ object.kind = "dex_cache"
    /\ calls < MaxCalls
    /\ \E base_addr \in CreateAddrs, file_size \in CreateSizes, info \in DexMaps :
          \E r \in {DexFile_Create(object, DexEnv, base_addr, file_size,
                                   object.memory, info)} :
             /\ object' = r.state
             /\ last' = [kind |-> "create", base_addr |-> base_addr,
                         file_size |-> file_size, info |-> info, result |-> r.result,
                         had |-> Len(object.heap)]
    /\ calls' = calls + 1
    /\ UNCHANGED <<env, mapVars, pc, loc, histVars, libVars>>

\* The last shared_ptr to an object is dropped: the weak_ptr of the cache
\* expires.
ReleaseDexFile ==
    /\ object.kind = "dex_cache"
    /\ \E i \in DOMAIN object.heap :
          /\ object.heap[i].alive
          /\ object' = [object EXCEPT !.heap[i].alive = FALSE]
    /\ last' = [kind |-> "none"]
    /\ UNCHANGED <<env, mapVars, pc, loc, calls, histVars, libVars>>

InitCreate ==
    /\ IdleMapInfo
    /\ object \in {[NoDexCache EXCEPT !.has_dex_support = s, !.memory = m] :
                      s \in BOOLEAN, m \in {MemoryLocal(AllReadable), MemoryLocal(Holed)}}
    /\ last = [kind |-> "none"]
    /\ IdleLib

NextCreate ==
    \/ CallCreate
    \/ ReleaseDexFile

SpecCreate == InitCreate /\ [][NextCreate]_vars

\* C34: the object DexFile::Create(base_addr, file_size, memory, info)
\* returns is valid for exactly the pcs of [base_addr, base_addr + file_size)
\* of that call, whether it was made by the call or taken from the cache.
C34_ValidForTheCall ==
    (last.kind = "create" /\ last.result # 0) =>
        \A dex_pc \in CreatePcs :
           DexFile_IsValidPc(object.heap[last.result], dex_pc)
              <=> (last.base_addr <= dex_pc /\ dex_pc < last.base_addr + last.file_size)

\* The same of the objects a call makes itself.
C34_ValidWhenMade ==
    (last.kind = "create" /\ last.result > last.had) =>
        \A dex_pc \in CreatePcs :
           DexFile_IsValidPc(object.heap[last.result], dex_pc)
              <=> (last.base_addr <= dex_pc /\ dex_pc < last.base_addr + last.file_size)

C34_Served ==
    /\ last.kind = "create"
    /\ last.result # 0
    /\ last.result <= last.had

(***************************************************************************)
(* ProcessTracer (utils/ProcessTracer.cpp) and the process it traces.  The *)
(* target is what the kernel knows: whether the process is alive, whether  *)
(* signals and ptrace requests of the tracer are permitted, whether it has *)
(* been stopped by SIGSTOP and not continued, and the threads that are     *)
(* ptrace-attached.                                                        *)
(***************************************************************************)
kNoThreadAttached == -1

\* The thread ids Attach and Detach are called with.
TracerTids == {100, 101, 102}

\* The process traced: its main thread has the least of the ids.
TracedPid == CHOOSE t \in TracerTids : \A u \in TracerTids : t <= u

\* A thread of another process.
ForeignTid == CHOOSE t \in TracerTids : \A u \in TracerTids : u <= t

\* The threads of the target other than the main thread.
OtherTids == TracerTids \ {TracedPid, ForeignTid}

\* ProcessTracer(pid, is_tracing_threads), InitProcessTids having worked:
\* tids_ are the threads of the process without the main thread.
ProcessTracer(pid, is_tracing_threads) ==
    [pid_ |-> pid, is_tracing_threads_ |-> is_tracing_threads,
     tids_ |-> IF is_tracing_threads THEN OtherTids ELSE {},
     is_running_ |-> TRUE, cur_attached_tid_ |-> kNoThreadAttached,
     destroyed |-> FALSE]

TracedProcess(permitted) ==
    [alive |-> TRUE, permitted |-> permitted, stopped |-> FALSE, traced |-> {}]

\* kill(pid, sig) fails when the process is gone or the signal is not
\* permitted.
KillWorks(target) == target.alive /\ target.permitted

\* ptrace(PTRACE_ATTACH, tid): the thread must be one of the live process and
\* not attached already.
AttachWorks(target, tid) ==
    /\ target.alive /\ target.permitted
    /\ tid \in {TracedPid} \cup OtherTids
    /\ tid \notin target.traced

\* ptrace(PTRACE_DETACH, tid): the thread must be attached.
DetachWorks(target, tid) == target.alive /\ tid \in target.traced

Traced(tracer, target, ok) == [tracer |-> tracer, target |-> target, ok |-> ok]

\* ProcessTracer::Stop
ProcessTracer_Stop(tracer, target) ==
    IF ~KillWorks(target) THEN Traced(tracer, target, FALSE)
    ELSE Traced([tracer EXCEPT !.is_running_ = FALSE],
                [target EXCEPT !.stopped = TRUE], TRUE)

\* ProcessTracer::Resume
ProcessTracer_Resume(tracer, target) ==
    IF ~KillWorks(target) THEN Traced(tracer, target, FALSE)
    ELSE Traced([tracer EXCEPT !.is_running_ = TRUE],
                [target EXCEPT !.stopped = FALSE], TRUE)

\* tid != pid_ && tids_.find(tid) == tids_.end()
NotOfProcess(tracer, tid) == tid # tracer.pid_ /\ tid \notin tracer.tids_

\* ProcessTracer::Detach(tid)
ProcessTracer_Detach(tracer, target, tid) ==
    LET stop == IF tracer.is_running_ THEN ProcessTracer_Stop(tracer, target)
                ELSE Traced(tracer, target, TRUE)
    IN IF NotOfProcess(tracer, tid) THEN Traced(tracer, target, FALSE)
       ELSE IF tracer.cur_attached_tid_ = kNoThreadAttached
       THEN Traced(tracer, target, FALSE)
       ELSE IF ~stop.ok THEN stop
       ELSE IF ~DetachWorks(stop.target, tid) THEN Traced(stop.tracer, stop.target, FALSE)
       ELSE Traced([stop.tracer EXCEPT !.cur_attached_tid_ = kNoThreadAttached],
                   [stop.target EXCEPT !.traced = @ \ {tid}], TRUE)

\* An Attach that refuses when a thread is attached already.
AttachedAlready_Refused == FALSE

\* What Attach returns when cur_attached_tid_ is not kNoThreadAttached.
AttachedAlready == TRUE

\* ProcessTracer::Attach(tid); waited is whether waitpid returns the thread.
ProcessTracer_Attach(tracer, target, tid, waited) ==
    LET stop == IF tracer.is_running_ THEN ProcessTracer_Stop(tracer, target)
                ELSE Traced(tracer, target, TRUE)
        attached == [stop.target EXCEPT !.traced = @ \cup {tid}]
    IN IF NotOfProcess(tracer, tid) THEN Traced(tracer, target, FALSE)
       ELSE IF stop.tracer.cur_attached_tid_ # kNoThreadAttached
       THEN Traced(stop.tracer, stop.target, AttachedAlready)
       ELSE IF ~AttachWorks(stop.target, tid) THEN Traced(stop.tracer, stop.target, FALSE)
       ELSE IF ~waited THEN Traced(stop.tracer, attached, FALSE)
       ELSE Traced([stop.tracer EXCEPT !.cur_attached_tid_ = tid], attached, TRUE)

\* ProcessTracer::~ProcessTracer
ProcessTracer_Destroy(tracer, target) ==
    LET detached == IF tracer.cur_attached_tid_ # kNoThreadAttached
                    THEN ProcessTracer_Detach(tracer, target, tracer.cur_attached_tid_)
                    ELSE Traced(tracer, target, TRUE)
        resumed == IF ~detached.tracer.is_running_
                   THEN ProcessTracer_Resume(detached.tracer, detached.target)
                   ELSE detached
    IN Traced([resumed.tracer EXCEPT !.destroyed = TRUE], resumed.target, TRUE)

\* The call made of the tracer, its result and the tracer and target before.
TracerCall(op, tid, r) ==
    /\ object' = [object EXCEPT !.tracer = r.tracer, !.target = r.target]
    /\ last' = [kind |-> "tracer", op |-> op, tid |-> tid, ok |-> r.ok,
                before |-> object.tracer, was |-> object.target]
    /\ UNCHANGED <<env, mapVars, pc, loc, calls, histVars, libVars>>

Tracing == object.kind = "tracer" /\ ~object.tracer.destroyed

CallStop ==
    /\ Tracing
    /\ TracerCall("Stop", 0, ProcessTracer_Stop(object.tracer, object.target))

CallResume ==
    /\ Tracing
    /\ TracerCall("Resume", 0, ProcessTracer_Resume(object.tracer, object.target))

\* waitpid fails when a signal interrupts it.
CallAttach ==
    /\ Tracing
    /\ \E tid \in TracerTids, waited \in BOOLEAN :
          TracerCall("Attach", tid,
                     ProcessTracer_Attach(object.tracer, object.target, tid, waited))

CallDetach ==
    /\ Tracing
    /\ \E tid \in TracerTids :
          TracerCall("Detach", tid, ProcessTracer_Detach(object.tracer, object.target, tid))

\* The tracer goes out of scope: main of unwind_for_offline returns.
CallDestroy ==
    /\ Tracing
    /\ TracerCall("Destroy", 0, ProcessTracer_Destroy(object.tracer, object.target))

\* The target is killed by someone else.
TargetExits ==
    /\ Tracing
    /\ object.target.alive
    /\ object' = [object EXCEPT !.target = [@ EXCEPT !.alive = FALSE, !.stopped = FALSE,
                                                     !.traced = {}]]
    /\ last' = [kind |-> "none"]
    /\ UNCHANGED <<env, mapVars, pc, loc, calls, histVars, libVars>>

InitTracer ==
    /\ IdleMapInfo
    /\ object \in {[kind |-> "tracer", tracer |-> ProcessTracer(TracedPid, threads),
                    target |-> TracedProcess(permitted)] :
                      threads \in BOOLEAN, permitted \in BOOLEAN}
    /\ last = [kind |-> "none"]
    /\ IdleLib

NextTracer ==
    \/ CallStop
    \/ CallResume
    \/ CallAttach
    \/ CallDetach
    \/ CallDestroy
    \/ TargetExits

SpecTracer == InitTracer /\ [][NextTracer]_vars

\* Whether the call of last issued ptrace(PTRACE_DETACH, tid).
DetachIssued ==
    /\ last.op = "Detach"
    /\ ~NotOfProcess(last.before, last.tid)
    /\ last.before.cur_attached_tid_ # kNoThreadAttached
    /\ last.before.is_running_ => KillWorks(last.was)

\* C35: at most one thread is attached at a time; Attach(tid) returning true
\* leaves cur_attached_tid_ = tid with tid ptrace-attached; Attach while
\* another thread is attached does not return true; Detach(tid) issues the
\* ptrace detach and clears cur_attached_tid_ only when tid is the thread
\* attached.
C35_OneAttachedThread ==
    (object.kind = "tracer" /\ last.kind = "tracer") =>
       /\ Cardinality(object.target.traced) <= 1
       /\ (last.op = "Attach" /\ last.ok) =>
             /\ object.tracer.cur_attached_tid_ = last.tid
             /\ last.tid \in object.target.traced
       /\ (last.op = "Attach" /\ last.before.cur_attached_tid_ \notin {kNoThreadAttached, last.tid})
             => ~last.ok
       /\ DetachIssued => last.tid = last.before.cur_attached_tid_
       /\ (last.op = "Detach"
           /\ object.tracer.cur_attached_tid_ # last.before.cur_attached_tid_)
             => last.tid = last.before.cur_attached_tid_

\* C36: once the ProcessTracer is destroyed no thread of the target is
\* attached and the target is not stopped.
C36_LeftRunningUntraced ==
    (object.kind = "tracer" /\ object.tracer.destroyed) =>
       /\ object.target.traced = {}
       /\ ~object.target.stopped

(***************************************************************************)
(* Memory::ReadString (Memory.cpp).  The bytes of a source are told apart  *)
(* by where they come from: a byte is the terminator when its place in the *)
(* source is one of Nuls.  A string read is the sequence of the places of  *)
(* its bytes.                                                              *)
(***************************************************************************)
\* sizeof(buffer)
StringBuffer == 256

\* Where the sources hold a zero byte.
Nuls == {600, 1050, 2030, 2 * PageSize + 10}

\* The place in the source of byte i of the destination of a read.
SourceAt(data, i) ==
    LET covering == {k \in DOMAIN data : data[k].dst <= i /\ i < data[k].dst + data[k].len}
    IN data[CHOOSE k \in covering : TRUE].src + (i - data[CHOOSE k \in covering : TRUE].dst)

\* strnlen(buffer, size) of the bytes a read stored.
Strnlen(data, size) ==
    LET zeros == {i \in 0 .. size - 1 : SourceAt(data, i) \in Nuls}
    IN IF zeros = {} THEN size ELSE CHOOSE i \in zeros : \A j \in zeros : i <= j

\* dst->assign(buffer, length), or the string ReadFully filled.
StringOf(data, length) == [i \in 1 .. length |-> SourceAt(data, i - 1)]

NoString(mem) == [ok |-> FALSE, dst |-> <<>>, mem |-> mem]

\* return ReadFully(addr, dst->data(), dst->size())
ReadWhole(mem, addr, length) == Read(mem, addr, length)

RECURSIVE ReadStringFrom(_, _, _, _)
\* The for loop of ReadString from offset on.
ReadStringFrom(mem, addr, max_read, offset) ==
    IF offset >= max_read THEN NoString(mem)
    ELSE LET read == Min(StringBuffer, max_read - offset)
             r == Read(mem, Add64(addr, offset), read)
             size == r.n
             length == Strnlen(r.data, size)
             whole == ReadWhole(r.mem, addr, offset + length)
         IN IF size = 0 THEN NoString(r.mem)
            ELSE IF length < size
            THEN IF offset = 0
                 THEN [ok |-> TRUE, dst |-> StringOf(r.data, length), mem |-> r.mem]
                 ELSE IF whole.n = offset + length
                 THEN [ok |-> TRUE, dst |-> StringOf(whole.data, offset + length),
                       mem |-> whole.mem]
                 ELSE [ok |-> FALSE, dst |-> <<>>, mem |-> whole.mem]
            ELSE ReadStringFrom(r.mem, addr, max_read, offset + size)

\* Memory::ReadString(addr, dst, max_read)
ReadString(mem, addr, max_read) == ReadStringFrom(mem, addr, max_read, 0)

\* Whether the byte at addr can be read, and its place in the source.
ByteThroughRead(mem, addr) ==
    LET r == Read(mem, addr, 1)
    IN [ok |-> r.n = 1, source |-> IF r.n = 1 THEN SourceAt(r.data, 0) ELSE 0]

\* The string at addr: the bytes before the first terminator among the first
\* max_read bytes, when each byte up to the terminator can be read.
StringAt(mem, addr, max_read) ==
    LET bytes == [i \in 0 .. max_read - 1 |-> ByteThroughRead(mem, Add64(addr, i))]
        ends == {i \in DOMAIN bytes : ~bytes[i].ok \/ bytes[i].source \in Nuls}
        end == CHOOSE i \in ends : \A j \in ends : i <= j
    IN IF ends = {} THEN [ok |-> FALSE, dst |-> <<>>]
       ELSE IF ~bytes[end].ok THEN [ok |-> FALSE, dst |-> <<>>]
       ELSE [ok |-> TRUE, dst |-> [i \in 1 .. end |-> bytes[i - 1].source]]

StringMemories ==
    {MemoryBuffer(4000), InsertAll(EmptyRanges, <<Shifted, Adjacent>>, 1),
     MemoryLocal(Holed), MemoryRemote(Target(Holed, FALSE, TRUE))}

StringAddrs == {0, 40, 90, 300, 599, 2 * PageSize, 3 * PageSize - 20}

StringMaxReads == {0, 16, 64, 300, 512}

CallReadString ==
    /\ object.kind \in {"buffer", "ranges", "local", "remote"}
    /\ \E addr \in StringAddrs, max_read \in StringMaxReads :
          \E r \in {ReadString(object, addr, max_read)} :
             /\ object' = r.mem
             /\ last' = [kind |-> "string", addr |-> addr, max_read |-> max_read,
                         ok |-> r.ok, dst |-> r.dst, mem |-> object]
    /\ UNCHANGED <<env, mapVars, pc, loc, calls, histVars, libVars>>

InitString ==
    /\ IdleMapInfo
    /\ object \in StringMemories
    /\ last = [kind |-> "none"]
    /\ IdleLib

NextString == CallReadString

SpecString == InitString /\ [][NextString]_vars

\* C37: ReadString returns true with the bytes before the first terminator
\* when a terminator lies within max_read bytes of addr and each byte up to
\* it can be read, whatever the reads return short of; it returns false when
\* there is no terminator within max_read bytes or a byte before it cannot
\* be read.
C37_ReadString ==
    last.kind = "string" =>
        \A expected \in {StringAt(last.mem, last.addr, last.max_read)} :
           /\ last.ok <=> expected.ok
           /\ last.ok => last.dst = expected.dst

\* The part of C37 that holds: what ReadString returns is the string at addr.
C37_ReadStringSound ==
    last.kind = "string" =>
        \A expected \in {StringAt(last.mem, last.addr, last.max_read)} :
           last.ok => (expected.ok /\ last.dst = expected.dst)

C37_AcrossBlocks ==
    /\ last.kind = "string"
    /\ last.ok
    /\ Len(last.dst) > StringBuffer

\* C39: elf_offset_, elf_start_offset_ and memory_backed_elf_ of a MapInfo
\* are written only by a thread that holds the mutex of the MapInfo, on each
\* of the paths that write them: GetElf, GetLoadBias through CreateMemory,
\* GetBuildID through GetFileMemory.
C39_LazyFieldsWrittenUnderMutex ==
    [][\A m \in MapIds :
          (\/ elf_offset'[m] # elf_offset[m]
           \/ elf_start_offset'[m] # elf_start_offset[m]
           \/ memory_backed_elf'[m] # memory_backed_elf[m])
             => mutex[m] # Null]_vars

\* Whether the fetch of addr_page fails: the page is not cached and the
\* underlying memory does not return all of it.
FetchFails(mem, addr_page) ==
    /\ addr_page \notin DOMAIN mem.cache
    /\ Read(mem.impl, (addr_page * kCacheSize) % AddrSpace, kCacheSize).n # kCacheSize

\* C40: every page of the cache holds what a read of the whole page from the
\* underlying memory returns; a page whose fetch fails has no entry
\* afterwards, and the bytes asked of it are read from the underlying
\* memory directly.
C40_OnlyWholePagesCached ==
    object.kind = "cache" =>
       /\ \A p \in DOMAIN object.cache :
             \A fetched \in {Read(object.impl, (p * kCacheSize) % AddrSpace, kCacheSize)} :
                fetched.n = kCacheSize /\ object.cache[p] = fetched.data
       /\ (last.kind = "cache" /\ last.size <= kCacheMaxRead) =>
             \A first \in {last.addr \div kCacheSize} :
             \A max_read \in {Sub64(((first + 1) * kCacheSize) % AddrSpace, last.addr)} :
                /\ FetchFails(last.before, first) =>
                      /\ first \notin DOMAIN object.cache
                      /\ last.reads = <<Passed(first * kCacheSize, kCacheSize),
                                        Passed(last.addr, last.size)>>
                /\ (/\ ~FetchFails(last.before, first)
                    /\ last.size > max_read
                    /\ FetchFails(last.before, first + 1)) =>
                      /\ first + 1 \notin DOMAIN object.cache
                      /\ last.reads[Len(last.reads)] =
                            Passed(((first + 1) * kCacheSize) % AddrSpace,
                                   last.size - max_read)

\* A read that crossed from a page that is cached into one whose fetch failed.
C40_Witness ==
    /\ object.kind = "cache"
    /\ last.kind = "cache"
    /\ last.size <= kCacheMaxRead
    /\ PageOf(last.addr) \in DOMAIN object.cache
    /\ last.size > Sub64(((PageOf(last.addr) + 1) * kCacheSize) % AddrSpace, last.addr)
    /\ FetchFails(last.before, PageOf(last.addr) + 1)
    /\ PageOf(last.addr) + 1 \notin DOMAIN object.cache
====
